---- MODULE Spec2Model ----
(***************************************************************************)
(* Scan navigation and spectrum rendering of the mass-spectrometry viewer: *)
(* the three viewer tabs (SimpleMS1Tab, ZoomViewerTab, MS1MS2Tab), the     *)
(* tables they hold, and the matplotlib axes they draw on.                  *)
(*                                                                         *)
(* Units.  m/z values are integers in hundredths (500.00 is 50000), click  *)
(* positions are integers in tenths of a scan (2.3 is 23), intensities are *)
(* integers.  Floating-point rounding is not modelled.                     *)
(***************************************************************************)
EXTENDS Integers, Sequences, FiniteSets, TLC

VARIABLES ms1_ms2_tab, simple_ms1_tab, zoom_viewer_tab, ev, loads,
          data_loader_tab, main_window, conversion_thread, signals, alias

\* the loader tab, the main window, the conversion worker, its queued signals
\* and the identity of the DataFrame objects
appVars == <<data_loader_tab, main_window, conversion_thread, signals, alias>>

vars == <<ms1_ms2_tab, simple_ms1_tab, zoom_viewer_tab, ev, loads, appVars>>
Viewers == <<ms1_ms2_tab, simple_ms1_tab, zoom_viewer_tab>>
Worker == <<conversion_thread, signals>>

----------------------------------------------------------------------------
(* Bounds of the model *)

\* largest click position, in whole scans; clicks range over 0.0 .. MaxClickX + 0.7
MaxClickX == 6
\* most highlight bands the MS1 panel may hold before a further band is cut off
MaxBands == 2
\* most tables handed to the tabs in one run
MaxLoads == 2
\* most conversions started in one run
MaxJobs == 1
\* most conversions started in one run of the conversion specification
MaxConversions == 2
\* most rows of a table drawn from the scan-number family
MaxRows == 4

----------------------------------------------------------------------------
(* Python values *)

\* None, and a present value, as a sequence of length 0 or 1
None == <<>>
Some(v) == <<v>>

\* float NaN, as pandas writes an absent precursor_mz
NaN == -1

SetMax(S) == CHOOSE m \in S : \A s \in S : s <= m
SetMin(S) == CHOOSE m \in S : \A s \in S : m <= s

RECURSIVE SortedSeq(_)
SortedSeq(S) == IF S = {} THEN <<>> ELSE <<SetMin(S)>> \o SortedSeq(S \ {SetMin(S)})

RECURSIVE SumSeq(_)
SumSeq(s) == IF s = <<>> THEN 0 ELSE Head(s) + SumSeq(Tail(s))

Contains(s, v) == \E i \in DOMAIN s : s[i] = v
IndexOf(s, v) == SetMin({i \in DOMAIN s : s[i] = v})

\* NaN-propagating addition of a constant to an m/z value
AddMz(p, c) == IF p = NaN THEN NaN ELSE p + c

----------------------------------------------------------------------------
(* Tables: the DataFrames handed to set_data *)

Row(scan, mz, intensity, level, prec) ==
    [scan_number |-> scan, mz |-> mz, intensity |-> intensity,
     ms_level |-> level, precursor_mz |-> prec, Max |-> 0]

AllCols == {"scan_number", "mz", "intensity", "ms_level", "precursor_mz"}

\* scans 1 (MS1), 2 (MS2, precursor 500.00), 3 (MS1)
TableDDA ==
    [cols |-> AllCols,
     rows |-> << Row(1, 40000, 100, 1, NaN), Row(1, 50000, 200, 1, NaN),
                 Row(2, 15000, 50, 2, 50000), Row(2, 25000, 80, 2, 50000),
                 Row(3, 40000, 300, 1, NaN) >>]

\* scan numbers with gaps: 1 (MS1), 5 (MS2, precursor 400.00), 6 (MS2, 500.00)
TableGap ==
    [cols |-> AllCols,
     rows |-> << Row(1, 45000, 400, 1, NaN),
                 Row(5, 12000, 60, 2, 40000),
                 Row(6, 13000, 70, 2, 50000), Row(6, 14000, 20, 2, 50000) >>]

\* no MS1 scan at all (PRM) and no precursor_mz column: scans 0 and 2, MS2
TablePRM ==
    [cols |-> AllCols \ {"precursor_mz"},
     rows |-> << Row(0, 11000, 30, 2, NaN), Row(2, 21000, 90, 2, NaN) >>]

\* a table without the required ms_level column (the level given is not read)
TableNoLevel ==
    [cols |-> AllCols \ {"ms_level"},
     rows |-> << Row(1, 40000, 100, 1, NaN) >>]

Tables == <<TableDDA, TableGap, TablePRM, TableNoLevel>>

RowsOfScan(t, n) == SelectSeq(t.rows, LAMBDA r : r.scan_number = n)
RowsOfLevel(rows, l) == SelectSeq(rows, LAMBDA r : r.ms_level = l)
Column(rows, c) == {rows[i][c] : i \in DOMAIN rows}
Intensities(rows) == [i \in DOMAIN rows |-> rows[i].intensity]
Peaks(rows) == [i \in DOMAIN rows |-> <<rows[i].mz, rows[i].intensity>>]

\* a variant that plots the largest peak of each scan
Chromatogram_BasePeak(t) ==
    LET scans == SortedSeq(Column(t.rows, "scan_number"))
    IN  [i \in DOMAIN scans |->
            <<scans[i], SetMax(Column(RowsOfScan(t, scans[i]), "intensity"))>>]

\* groupby("scan_number")["intensity"].sum().reset_index().sort_values(...)
Chromatogram(t) ==
    LET scans == SortedSeq(Column(t.rows, "scan_number"))
    IN  [i \in DOMAIN scans |->
            <<scans[i], SumSeq(Intensities(RowsOfScan(t, scans[i])))>>]

----------------------------------------------------------------------------
(* The drawing surface: matplotlib axes and artists *)

Artist(kind, data) == [kind |-> kind, data |-> data]
Title(text, scan) == [text |-> text, scan |-> scan]

\* Axes.clear(): no title, no artists, automatic limits
ClearedAxes == [title |-> Title("", None), children |-> <<>>,
                xlim |-> None, ylim |-> None]

Draw(ax, artist) == [ax EXCEPT !.children = Append(@, artist)]
ArtistsOf(ax, kind) == SelectSeq(ax.children, LAMBDA a : a.kind = kind)

\* A handle the tab keeps on an artist; live is FALSE once the axes the
\* artist was on has been cleared
Handle(artist) == Some([artist |-> artist, live |-> TRUE])
Detached(h) == IF h = None THEN None ELSE Some([h[1] EXCEPT !.live = FALSE])

\* Artist.remove(): takes the artist off its axes
RemoveArtist(ax, artist) ==
    LET at == {i \in DOMAIN ax.children :
                  /\ ax.children[i].kind = artist.kind
                  /\ ax.children[i].data = artist.data}
        k == SetMax(at)
    IN  IF at = {} THEN ax
        ELSE [ax EXCEPT !.children =
                 SubSeq(@, 1, k - 1) \o SubSeq(@, k + 1, Len(@))]

----------------------------------------------------------------------------
(* Events delivered by the windowing shell *)

\* Click positions, in tenths of a scan.  Scan numbers are integers, so both
\* round(x) and the order of the distances from x to the scans depend only
\* on the integer part of x and on whether its fraction is 0, below 0.5,
\* 0.5 or above 0.5: one position of each kind per unit
ClickFracs == {0, 3, 5, 7}
ClickXs == {10 * n + f : n \in 0..MaxClickX, f \in ClickFracs}

\* a matplotlib button_press_event: the axes under the pointer and its x
MouseEvent(inaxes, xdata) == [inaxes |-> inaxes, xdata |-> xdata]
MouseEvents ==
    {MouseEvent("ax_chrom", Some(x)) : x \in ClickXs}
    \cup {MouseEvent("ax_ms1", Some(20)), MouseEvent("ax_ms2", Some(20)),
          MouseEvent("None", None)}

Keys == {"Key_Left", "Key_Right", "Key_Up"}

\* The last event handled: the tab, the handler, what it was about (the axes
\* clicked, the key), its argument, and the scan it handed to update_scan
\* (None when it selected nothing)
Event(tab, op, what, arg, sel) ==
    [tab |-> tab, op |-> op, what |-> what, arg |-> arg, sel |-> sel]

\* what a process event is about: whether the handler ran on this tab in
\* the event before as well
Again(tab, op) == IF ev.tab = tab /\ ev.op = op THEN "again" ELSE ""

\* QMessageBox.critical(self, ...): a modal dialog, run by a nested event loop
\* inside the handler that shows it; names are the columns its text lists
QMessageBox(self, icon, text, names) ==
    [pc |-> "QMessageBox", self |-> self, icon |-> icon, text |-> text,
     names |-> names]

\* the handlers of the main thread that wait in a nested event loop,
\* innermost last: load_file calls in processEvents, and handlers in a dialog
Frames == data_loader_tab.frames

\* a variant in which a dialog lets the user's input through
Modal_Never == FALSE

\* an open dialog is application-modal: mouse and key input reaches the
\* dialog only, while signals queued by the worker thread are delivered
Modal == \E i \in DOMAIN Frames : Frames[i].pc = "QMessageBox"

\* the handler shows the dialog, if it has one to show, and waits in it
Shown(self, box) ==
    IF box = None THEN self ELSE [self EXCEPT !.frames = Append(@, box[1])]

Top(self) == self.frames[Len(self.frames)]
Popped(self) == [self EXCEPT !.frames = SubSeq(@, 1, Len(@) - 1)]

\* the user closes the innermost dialog: its handler returns
Dismiss ==
    /\ Frames # <<>>
    /\ Top(data_loader_tab).pc = "QMessageBox"
    /\ data_loader_tab' = Popped(data_loader_tab)
    /\ ev' = Event(Top(data_loader_tab).self, "QMessageBox", "closed", <<>>, None)
    /\ UNCHANGED <<Viewers, main_window, Worker, alias, loads>>

\* Python's round(): to the nearest integer, a tie to the even one
PyRound(x10) ==
    LET q == x10 \div 10
        r == x10 % 10
    IN  IF r < 5 THEN q
        ELSE IF r > 5 THEN q + 1
        ELSE IF q % 2 = 0 THEN q ELSE q + 1

Abs(n) == IF n < 0 THEN -n ELSE n

\* min(all_scans, key=lambda x: abs(x - target)): the first of the minima
MinByDistance(all_scans, target) ==
    LET best == SetMin({Abs(all_scans[i] - target) : i \in DOMAIN all_scans})
        first == SetMin({i \in DOMAIN all_scans : Abs(all_scans[i] - target) = best})
    IN  all_scans[first]

\* a variant that takes round(x) for a 0-based position in all_scans
NearestScan_AsIndex(all_scans, x10) ==
    LET i == PyRound(x10) + 1
    IN  IF i \in DOMAIN all_scans THEN all_scans[i]
        ELSE all_scans[Len(all_scans)]

\* the scan a click at xdata resolves to (on_click, all three tabs)
NearestScan(all_scans, x10) ==
    LET nearest_scan == PyRound(x10)
    IN  IF Contains(all_scans, nearest_scan) THEN nearest_scan
        ELSE MinByDistance(all_scans, nearest_scan)

----------------------------------------------------------------------------
(* MS1MS2Tab: chromatogram, MS1 panel and MS2 panel *)

RequiredCols == {"scan_number", "intensity", "ms_level", "mz"}

\* __init__, setup_ui and show_initial_plots
MS1MS2Tab_init ==
    [df |-> None, current_scan |-> None, all_scans |-> <<>>,
     scan_line |-> None, ms2_shading_ms1 |-> None, ms2_shading_ms2 |-> None,
     ax_chrom |-> Draw([ClearedAxes EXCEPT !.title = Title("chromatogram", None)],
                       Artist("text", <<>>)),
     ax_ms1 |-> Draw([ClearedAxes EXCEPT !.title = Title("MS1 Spectrum", None)],
                     Artist("text", <<>>)),
     ax_ms2 |-> Draw([ClearedAxes EXCEPT !.title = Title("MS2 Spectrum", None)],
                     Artist("text", <<>>)),
     chrom_max_intensity |-> None, all_mz_min |-> None, all_mz_max |-> None,
     status_label |-> "no data", process_button |-> FALSE,
     exc |-> ""]

MS1MS2Tab_set_data(self, df) ==
    [self EXCEPT !.df = Some(df),
                 !.status_label = "data received",
                 !.process_button = TRUE]

MS1MS2Tab_setup_spectrum_plots(self) ==
    [self EXCEPT
        !.ax_ms1 = [ClearedAxes EXCEPT !.title = Title("MS1 Spectrum", None)],
        !.ax_ms2 = [ClearedAxes EXCEPT !.title = Title("MS2 Spectrum", None)],
        !.ms2_shading_ms1 = Detached(@),
        !.ms2_shading_ms2 = Detached(@)]

\* process_data, from the column check on (df is set)
\* process_data: the dialog of the column check,
\* f"必要な列が見つかりません: {required_cols}"
MS1MS2Tab_process_data_box(self) ==
    IF ~ (RequiredCols \subseteq self.df[1].cols)
    THEN Some(QMessageBox("ms1_ms2_tab", "critical", "required columns not found",
                          RequiredCols))
    ELSE None

MS1MS2Tab_process_data(self) ==
    LET df == self.df[1]
        chrom_df == Chromatogram(df)
        chrom_max == SetMax({chrom_df[i][2] : i \in DOMAIN chrom_df}) * 105
        ms1_data == RowsOfLevel(df.rows, 1)
        mz_of == IF ms1_data # <<>> THEN ms1_data ELSE df.rows
        s1 == [self EXCEPT
                 !.all_scans = [i \in DOMAIN chrom_df |-> chrom_df[i][1]],
                 !.chrom_max_intensity = Some(chrom_max),
                 !.scan_line = Detached(@),
                 !.ax_chrom =
                     [Draw(ClearedAxes, Artist("plot", chrom_df)) EXCEPT
                        !.title = Title("Chromatogram (All MS Levels)", None),
                        !.ylim = Some(<<0, chrom_max>>)],
                 !.all_mz_min = Some(SetMin(Column(mz_of, "mz")) - 1000),
                 !.all_mz_max = Some(SetMax(Column(mz_of, "mz")) + 1000)]
        s2 == MS1MS2Tab_setup_spectrum_plots(s1)
    IN  IF ~ (RequiredCols \subseteq df.cols) THEN self
        ELSE [s2 EXCEPT !.status_label = "processed"]

\* safe_remove_artist: the axes once the artist behind the handle is taken
\* off; a handle whose artist is gone already (remove() raises, or does
\* nothing) leaves the axes as they are
MS1MS2Tab_safe_remove_artist(ax, artist) ==
    IF artist # None /\ artist[1].live THEN RemoveArtist(ax, artist[1].artist)
    ELSE ax

\* find_ms1_scan: the first scan at or below target_scan, going down, that
\* has MS1 rows
MS1MS2Tab_find_ms1_scan(self, target_scan) ==
    LET candidate_scans ==
            {self.all_scans[i] : i \in DOMAIN self.all_scans} \cap
            {s \in Int : s <= target_scan}
        with_ms1 == {s \in candidate_scans :
                        RowsOfLevel(RowsOfScan(self.df[1], s), 1) # <<>>}
    IN  IF with_ms1 = {} THEN None ELSE Some(SetMax(with_ms1))

\* the test that guards the band on the MS1 panel:
\* get_title() and "No MS1 data" not in get_title()
MS1MS2Tab_ms1_shown(ax_ms1) ==
    /\ ax_ms1.title.text # ""
    /\ ax_ms1.title.text # "MS1 Spectrum - No MS1 data available"

\* the highlight bands of a precursor: mz_min = precursor_mz - 1.5 and
\* mz_max = precursor_mz + 1.5; the MS2 panel gets axvspan(mz_min + 1.45,
\* mz_max - 1.45), the MS1 panel axvspan(mz_min, mz_max)
\* a variant that narrows the MS2 band by 1.4 instead of 1.45
MS1MS2Tab_band_ms2_Wide(precursor_mz) ==
    LET mz_min == AddMz(precursor_mz, -150)
        mz_max == AddMz(precursor_mz, 150)
    IN  Artist("axvspan", << <<AddMz(mz_min, 140), AddMz(mz_max, -140)>> >>)

MS1MS2Tab_band_ms2(precursor_mz) ==
    LET mz_min == AddMz(precursor_mz, -150)
        mz_max == AddMz(precursor_mz, 150)
    IN  Artist("axvspan", << <<AddMz(mz_min, 145), AddMz(mz_max, -145)>> >>)

MS1MS2Tab_band_ms1(precursor_mz) ==
    LET mz_min == AddMz(precursor_mz, -150)
        mz_max == AddMz(precursor_mz, 150)
    IN  Artist("axvspan", << <<mz_min, mz_max>> >>)

\* update_scan, the selection line: current_scan and the red line on the
\* chromatogram
MS1MS2Tab_update_scan_line(self, scan_number) ==
    LET line == Artist("axvline", << <<scan_number, 0>> >>)
    IN  [self EXCEPT
           !.current_scan = Some(scan_number),
           !.ax_chrom = Draw(MS1MS2Tab_safe_remove_artist(@, self.scan_line), line),
           !.scan_line = Handle(line)]

\* a variant that blanks the MS1 panel when the scan has no MS1 rows
MS1MS2Tab_update_scan_ms1_Blank(self, scan_number, ms1_data) ==
    LET ms1_max_intensity == SetMax(Column(ms1_data, "intensity")) * 10
        xlim == Some(<<self.all_mz_min[1], self.all_mz_max[1]>>)
    IN  IF ms1_data = <<>>
        THEN [self EXCEPT
                !.ms2_shading_ms1 = Detached(@),
                !.ax_ms1 =
                    [ClearedAxes EXCEPT
                       !.title = Title("MS1 Spectrum - No MS1 data available", None),
                       !.xlim = xlim]]
        ELSE [self EXCEPT
                !.ms2_shading_ms1 = None,
                !.ax_ms1 =
                    [Draw(ClearedAxes, Artist("vlines", Peaks(ms1_data))) EXCEPT
                       !.title = Title("MS1 Spectrum - Scan", Some(scan_number)),
                       !.xlim = xlim,
                       !.ylim = Some(<<0, ms1_max_intensity>>)]]

\* a variant that draws the MS1 rows of the scan before the selected one
\* when the selected scan has none
MS1MS2Tab_update_scan_ms1_Previous(self, scan_number, ms1_data) ==
    LET prev == RowsOfLevel(RowsOfScan(self.df[1], scan_number - 1), 1)
        data == IF ms1_data = <<>> THEN prev ELSE ms1_data
    IN  IF data = <<>> THEN self
        ELSE [self EXCEPT
                !.ms2_shading_ms1 = None,
                !.ax_ms1 =
                    [Draw(ClearedAxes, Artist("vlines", Peaks(data))) EXCEPT
                       !.title = Title("MS1 Spectrum - Scan", Some(scan_number)),
                       !.xlim = Some(<<self.all_mz_min[1], self.all_mz_max[1]>>),
                       !.ylim = Some(<<0, SetMax(Column(data, "intensity")) * 10>>)]]

\* a variant that fits the MS1 panel to the m/z of the selected scan
MS1MS2Tab_update_scan_ms1_OwnRange(self, scan_number, ms1_data) ==
    IF ms1_data = <<>> THEN self
    ELSE [self EXCEPT
            !.ms2_shading_ms1 = None,
            !.ax_ms1 =
                [Draw(ClearedAxes, Artist("vlines", Peaks(ms1_data))) EXCEPT
                   !.title = Title("MS1 Spectrum - Scan", Some(scan_number)),
                   !.xlim = Some(<<SetMin(Column(ms1_data, "mz")) - 1000,
                                   SetMax(Column(ms1_data, "mz")) + 1000>>),
                   !.ylim = Some(<<0, SetMax(Column(ms1_data, "intensity")) * 10>>)]]

\* update_scan, the MS1 panel: redrawn only when the scan has MS1 rows
MS1MS2Tab_update_scan_ms1(self, scan_number, ms1_data) ==
    LET ms1_max_intensity == SetMax(Column(ms1_data, "intensity")) * 10
    IN  IF ms1_data = <<>> THEN self
        ELSE [self EXCEPT
                !.ms2_shading_ms1 = None,
                !.ax_ms1 =
                    [Draw(ClearedAxes, Artist("vlines", Peaks(ms1_data))) EXCEPT
                       !.title = Title("MS1 Spectrum - Scan", Some(scan_number)),
                       !.xlim = Some(<<self.all_mz_min[1], self.all_mz_max[1]>>),
                       !.ylim = Some(<<0, ms1_max_intensity>>)]]

\* a variant that blanks the MS2 panel when the scan has no MS2 rows
MS1MS2Tab_update_scan_ms2_Blank(self, scan_number, ms2_data) ==
    LET s1 == [self EXCEPT
                 !.ms2_shading_ms2 = None,
                 !.ax_ms2 =
                     [Draw(ClearedAxes, Artist("vlines", Peaks(ms2_data))) EXCEPT
                        !.title = Title("MS2 Spectrum - Scan", Some(scan_number)),
                        !.xlim = Some(<<SetMin(Column(ms2_data, "mz")) - 1000,
                                        SetMax(Column(ms2_data, "mz")) + 1000>>),
                        !.ylim = Some(<<0, SetMax(Column(ms2_data, "intensity")) * 105>>)]]
        band2 == MS1MS2Tab_band_ms2(ms2_data[1].precursor_mz)
        band1 == MS1MS2Tab_band_ms1(ms2_data[1].precursor_mz)
    IN  IF ms2_data = <<>>
        THEN [self EXCEPT
                !.ms2_shading_ms2 = Detached(@),
                !.ax_ms2 =
                    [ClearedAxes EXCEPT
                       !.title = Title("MS2 Spectrum - Scan (No MS2 data)",
                                       Some(scan_number))]]
        ELSE IF "precursor_mz" \notin self.df[1].cols THEN s1
        ELSE [s1 EXCEPT
                !.ms2_shading_ms2 = Handle(band2),
                !.ax_ms2 = Draw(@, band2),
                !.ms2_shading_ms1 = Handle(band1),
                !.ax_ms1 = Draw(@, band1)]

\* update_scan, the MS2 panel and the precursor bands: redrawn only when the
\* scan has MS2 rows
MS1MS2Tab_update_scan_ms2(self, scan_number, ms2_data) ==
    LET ms2_mz_min == SetMin(Column(ms2_data, "mz")) - 1000
        ms2_mz_max == SetMax(Column(ms2_data, "mz")) + 1000
        current_ms2_max == SetMax(Column(ms2_data, "intensity")) * 105
        s1 == [self EXCEPT
                 !.ms2_shading_ms2 = None,
                 !.ax_ms2 =
                     [Draw(ClearedAxes, Artist("vlines", Peaks(ms2_data))) EXCEPT
                        !.title = Title("MS2 Spectrum - Scan", Some(scan_number)),
                        !.xlim = Some(<<ms2_mz_min, ms2_mz_max>>),
                        !.ylim = Some(<<0, current_ms2_max>>)]]
        precursor_mz == ms2_data[1].precursor_mz
        band2 == MS1MS2Tab_band_ms2(precursor_mz)
        band1 == MS1MS2Tab_band_ms1(precursor_mz)
    IN  IF ms2_data = <<>> THEN self
        ELSE IF "precursor_mz" \notin self.df[1].cols THEN s1
        ELSE [s1 EXCEPT
                !.ms2_shading_ms2 = Handle(band2),
                !.ax_ms2 = Draw(@, band2),
                !.ms2_shading_ms1 =
                    IF MS1MS2Tab_ms1_shown(s1.ax_ms1) THEN Handle(band1) ELSE @,
                !.ax_ms1 =
                    IF MS1MS2Tab_ms1_shown(s1.ax_ms1) THEN Draw(@, band1) ELSE @]

MS1MS2Tab_update_scan(self, scan_number) ==
    LET df == self.df[1]
        spec_data == RowsOfScan(df, scan_number)
        ms1_data == RowsOfLevel(spec_data, 1)
        ms2_data == RowsOfLevel(spec_data, 2)
        s1 == MS1MS2Tab_update_scan_line(self, scan_number)
        s2 == MS1MS2Tab_update_scan_ms1(s1, scan_number, ms1_data)
        s3 == MS1MS2Tab_update_scan_ms2(s2, scan_number, ms2_data)
    IN  IF "ms_level" \notin df.cols
        THEN \* spec_data['ms_level'] raises KeyError once current_scan is set
             [self EXCEPT !.current_scan = Some(scan_number), !.exc = "KeyError"]
        ELSE [s3 EXCEPT !.status_label = "scan shown"]

\* on_click up to the call of update_scan: the scan the click resolves to,
\* None when the handler returns early (the same lines in all three tabs)
\* a variant that takes a click on any panel for a click on the chromatogram
ClickTarget_AnyAxes(self, event) ==
    IF self.df = None THEN None
    ELSE IF event.xdata = None THEN None
    ELSE IF self.all_scans = <<>> THEN None
    ELSE Some(NearestScan(self.all_scans, event.xdata[1]))

ClickTarget(self, event) ==
    IF self.df = None \/ event.inaxes # "ax_chrom" THEN None
    ELSE IF event.xdata = None THEN None
    ELSE IF self.all_scans = <<>> THEN None
    ELSE Some(NearestScan(self.all_scans, event.xdata[1]))

\* keyPressEvent up to the call of update_scan: the neighbour the key moves
\* to, None when the handler returns without selecting (the same lines in
\* all three tabs); all_scans.index raises when current_scan is not listed
KeyRaises(self) ==
    /\ self.current_scan # None /\ self.all_scans # <<>>
    /\ ~ Contains(self.all_scans, self.current_scan[1])

\* a variant that wraps around at either end of all_scans
KeyTarget_Wrap(self, key) ==
    IF self.current_scan = None \/ self.all_scans = <<>> \/ KeyRaises(self) THEN None
    ELSE LET idx == IndexOf(self.all_scans, self.current_scan[1])
             n == Len(self.all_scans)
         IN  IF key = "Key_Left" THEN Some(self.all_scans[((idx + n - 2) % n) + 1])
             ELSE IF key = "Key_Right" THEN Some(self.all_scans[(idx % n) + 1])
             ELSE None

\* a variant that takes Key_Left for the next scan and Key_Right for the
\* previous one
KeyTarget_Swapped(self, key) ==
    IF self.current_scan = None \/ self.all_scans = <<>> \/ KeyRaises(self) THEN None
    ELSE LET idx == IndexOf(self.all_scans, self.current_scan[1])
         IN  IF key = "Key_Right" /\ idx > 1 THEN Some(self.all_scans[idx - 1])
             ELSE IF key = "Key_Left" /\ idx < Len(self.all_scans)
                  THEN Some(self.all_scans[idx + 1])
             ELSE None

\* a variant whose right key skips a scan when two more follow
KeyTarget_Skip(self, key) ==
    IF self.current_scan = None \/ self.all_scans = <<>> \/ KeyRaises(self) THEN None
    ELSE LET idx == IndexOf(self.all_scans, self.current_scan[1])
         IN  IF key = "Key_Left" /\ idx > 1 THEN Some(self.all_scans[idx - 1])
             ELSE IF key = "Key_Right" /\ idx + 1 < Len(self.all_scans)
                  THEN Some(self.all_scans[idx + 2])
             ELSE IF key = "Key_Right" /\ idx < Len(self.all_scans)
                  THEN Some(self.all_scans[idx + 1])
             ELSE None

KeyTarget(self, key) ==
    IF self.current_scan = None \/ self.all_scans = <<>> \/ KeyRaises(self) THEN None
    ELSE LET idx == IndexOf(self.all_scans, self.current_scan[1])
         IN  IF key = "Key_Left" /\ idx > 1 THEN Some(self.all_scans[idx - 1])
             ELSE IF key = "Key_Right" /\ idx < Len(self.all_scans)
                  THEN Some(self.all_scans[idx + 1])
             ELSE None

MS1MS2Tab_on_click(self, event) ==
    LET nearest_scan == ClickTarget(self, event)
    IN  IF nearest_scan = None THEN self
        ELSE MS1MS2Tab_update_scan(self, nearest_scan[1])

MS1MS2Tab_keyPressEvent(self, key) ==
    LET target == KeyTarget(self, key)
    IN  IF KeyRaises(self) THEN [self EXCEPT !.exc = "ValueError"]
        ELSE IF target = None THEN self
        ELSE MS1MS2Tab_update_scan(self, target[1])

\* the model stops a selection that would put more than MaxBands bands on
\* the MS1 panel
WithinBands(tab) == Len(ArtistsOf(tab.ax_ms1, "axvspan")) <= MaxBands

----------------------------------------------------------------------------
(* Actions of the MS1/MS2 tab *)

----------------------------------------------------------------------------
(* DataFrame objects: which attributes refer to one and the same object *)

\* alias is a set of classes of attribute names; the names of one class refer
\* to the same DataFrame object, so a write through one is seen through all;
\* a name in no class refers to an object of its own
Holders == {"current_data", "shared_data",
            "zoom_viewer_tab", "simple_ms1_tab", "ms1_ms2_tab"}

ClassOf(a, h) == IF \E c \in a : h \in c THEN CHOOSE c \in a : h \in c ELSE {h}
Dropped(a, h) == {c \in {c \ {h} : c \in a} : Cardinality(c) > 1}

\* h = <an object just made>
NewObject(a, h) == Dropped(a, h)

\* h = g: h refers to the object g refers to
SameObject(a, h, g) ==
    IF h = g THEN a
    ELSE LET d == Dropped(a, h)
         IN  (d \ {ClassOf(d, g)}) \cup {ClassOf(d, g) \cup {h}}

\* a variant in which copying and row selection hand back the frame itself
CopyOf_Same(a, h, g) == SameObject(a, h, g)

\* h = g.copy() and h = g[mask]: h refers to a new object
CopyOf(a, h, g) == NewObject(a, h)

\* the table seen through g after df is written in place through h
Seen(a, h, g, old, df) == IF g \in ClassOf(a, h) THEN df ELSE old

NoExc(self) == [self EXCEPT !.exc = ""]

DualSetData(k) ==
    /\ loads < MaxLoads
    /\ loads' = loads + 1
    /\ ms1_ms2_tab' = MS1MS2Tab_set_data(NoExc(ms1_ms2_tab), Tables[k])
    /\ ev' = Event("ms1_ms2_tab", "set_data", "", <<k>>, None)
    /\ UNCHANGED <<simple_ms1_tab, zoom_viewer_tab, appVars>>

\* the process button is enabled once data is set
DualProcess ==
    /\ ~ Modal
    /\ ms1_ms2_tab.process_button
    /\ ms1_ms2_tab' = MS1MS2Tab_process_data(NoExc(ms1_ms2_tab))
    /\ data_loader_tab' =
           Shown(data_loader_tab, MS1MS2Tab_process_data_box(ms1_ms2_tab))
    /\ ev' = Event("ms1_ms2_tab", "process_data",
                   Again("ms1_ms2_tab", "process_data"), <<>>, None)
    /\ UNCHANGED <<simple_ms1_tab, zoom_viewer_tab, loads, main_window, Worker,
                   alias>>

DualClick(event) ==
    LET new == MS1MS2Tab_on_click(NoExc(ms1_ms2_tab), event)
    IN  /\ ~ Modal
        /\ WithinBands(new)
        /\ ms1_ms2_tab' = new
        /\ ev' = Event("ms1_ms2_tab", "on_click", event.inaxes, event.xdata,
                       ClickTarget(ms1_ms2_tab, event))
        /\ UNCHANGED <<simple_ms1_tab, zoom_viewer_tab, loads, appVars>>

DualKey(key) ==
    LET new == MS1MS2Tab_keyPressEvent(NoExc(ms1_ms2_tab), key)
    IN  /\ ~ Modal
        /\ WithinBands(new)
        /\ ms1_ms2_tab' = new
        /\ ev' = Event("ms1_ms2_tab", "keyPressEvent", key, <<>>,
                       KeyTarget(ms1_ms2_tab, key))
        /\ UNCHANGED <<simple_ms1_tab, zoom_viewer_tab, loads, appVars>>

NextDual ==
    \/ \E k \in DOMAIN Tables : DualSetData(k)
    \/ DualProcess
    \/ Dismiss
    \/ \E event \in MouseEvents : DualClick(event)
    \/ \E key \in Keys : DualKey(key)

----------------------------------------------------------------------------
(* What the two MS1-only tabs share *)

\* df[df['ms_level'] == 1]
FilterMS1(t) == [t EXCEPT !.rows = RowsOfLevel(@, 1)]

\* a variant that numbers the scans from the last one down
ScanMapping_Reversed(t) ==
    LET unique_scans == SortedSeq(Column(t.rows, "scan_number"))
    IN  [old \in Column(t.rows, "scan_number") |->
            Len(unique_scans) + 1 - IndexOf(unique_scans, old)]

\* a variant that numbers the scans from 0
ScanMapping_FromZero(t) ==
    LET unique_scans == SortedSeq(Column(t.rows, "scan_number"))
    IN  [old \in Column(t.rows, "scan_number") |-> IndexOf(unique_scans, old) - 1]

\* unique_scans = sorted(df['scan_number'].unique());
\* scan_mapping = {old: new for new, old in enumerate(unique_scans, 1)}
ScanMapping(t) ==
    LET unique_scans == SortedSeq(Column(t.rows, "scan_number"))
    IN  [old \in Column(t.rows, "scan_number") |-> IndexOf(unique_scans, old)]

\* df['scan_number'] = df['scan_number'].map(scan_mapping)
Renumbered(t) ==
    LET scan_mapping == ScanMapping(t)
    IN  [t EXCEPT !.rows =
            [i \in DOMAIN @ |-> [@[i] EXCEPT !.scan_number = scan_mapping[@]]]]

\* (intensity / denominator) * 100, in hundredths of a percent; 0/0 is NaN
Percent(intensity, denominator) ==
    IF denominator = 0 THEN NaN ELSE (intensity * 10000) \div denominator

PercentPeaks(rows, denominator) ==
    [i \in DOMAIN rows |-> <<rows[i].mz, Percent(rows[i].intensity, denominator)>>]

\* a variant that shows the first scan after processing
MiddleScan_First(all_scans) == all_scans[1]

\* all_scans[len(all_scans) // 2]
MiddleScan(all_scans) == all_scans[(Len(all_scans) \div 2) + 1]

----------------------------------------------------------------------------
(* SimpleMS1Tab: chromatogram, variable-height and fixed-height MS1 panels *)

SimpleMS1Tab_init ==
    [df |-> None, current_scan |-> None, all_scans |-> <<>>,
     global_max_intensity |-> 0, scan_line |-> None,
     ax_chrom |-> Draw([ClearedAxes EXCEPT !.title = Title("MS1 Chromatogram", None)],
                       Artist("text", <<>>)),
     ax_ms1_var |-> Draw([ClearedAxes EXCEPT
                            !.title = Title("MS1 Spectrum (Variable Height)", None)],
                         Artist("text", <<>>)),
     ax_ms1_fixed |-> Draw([ClearedAxes EXCEPT
                              !.title = Title("MS1 Spectrum (Fixed Height)", None)],
                           Artist("text", <<>>)),
     all_mz_min |-> None, all_mz_max |-> None,
     status_label |-> "no data", process_button |-> FALSE, exc |-> ""]

SimpleMS1Tab_set_data(self, df) ==
    [self EXCEPT !.df = Some(df),
                 !.status_label = "data received",
                 !.process_button = TRUE]

SimpleMS1Tab_setup_spectrum_plots(self) ==
    LET xlim == Some(<<self.all_mz_min[1], self.all_mz_max[1]>>)
    IN  [self EXCEPT
           !.ax_ms1_var =
               [ClearedAxes EXCEPT
                  !.title = Title("MS1 Spectrum (Variable Height)", None),
                  !.xlim = xlim],
           !.ax_ms1_fixed =
               [ClearedAxes EXCEPT
                  !.title = Title("MS1 Spectrum (Fixed Height)", None),
                  !.xlim = xlim, !.ylim = Some(<<0, 10000>>)]]

SimpleMS1Tab_safe_remove_artist(ax, artist) ==
    IF artist # None /\ artist[1].live THEN RemoveArtist(ax, artist[1].artist)
    ELSE ax

SimpleMS1Tab_update_scan(self, scan_number) ==
    LET scan_data == RowsOfScan(self.df[1], scan_number)
        line == Artist("axvline", << <<scan_number, 0>> >>)
        current_max_intensity == SetMax(Column(scan_data, "intensity"))
        xlim == Some(<<self.all_mz_min[1], self.all_mz_max[1]>>)
    IN  IF scan_data = <<>>
        THEN [self EXCEPT !.current_scan = Some(scan_number)]
        ELSE [self EXCEPT
                !.current_scan = Some(scan_number),
                !.ax_chrom = Draw(SimpleMS1Tab_safe_remove_artist(@, self.scan_line), line),
                !.scan_line = Handle(line),
                !.ax_ms1_var =
                    [Draw(Draw(ClearedAxes,
                               Artist("vlines",
                                      PercentPeaks(scan_data, current_max_intensity))),
                          Artist("text", << <<current_max_intensity, 0>> >>)) EXCEPT
                       !.title = Title("variable - Scan", Some(scan_number)),
                       !.xlim = xlim, !.ylim = Some(<<0, 10000>>)],
                !.ax_ms1_fixed =
                    [Draw(Draw(ClearedAxes,
                               Artist("vlines",
                                      PercentPeaks(scan_data, self.global_max_intensity))),
                          Artist("text", << <<self.global_max_intensity, 0>> >>)) EXCEPT
                       !.title = Title("fixed - Scan", Some(scan_number)),
                       !.xlim = xlim, !.ylim = Some(<<0, 10000>>)],
                !.status_label = "scan shown"]

\* process_ms1_data: the dialog of the column check, or of the check for
\* MS1 rows
MS1Tab_process_ms1_data_box(tab, self) ==
    IF ~ (RequiredCols \subseteq self.df[1].cols)
    THEN Some(QMessageBox(tab, "critical", "required columns not found",
                          RequiredCols))
    ELSE IF FilterMS1(self.df[1]).rows = <<>>
    THEN Some(QMessageBox(tab, "critical", "MS1 data not found", {}))
    ELSE None

\* process_ms1_data, from the column check on (df is set)
SimpleMS1Tab_process_ms1_data(self) ==
    LET ms1 == FilterMS1(self.df[1])
        df == Renumbered(ms1)
        chrom_df == Chromatogram(df)
        s1 == [self EXCEPT
                 !.df = Some(df),
                 !.global_max_intensity = SetMax(Column(df.rows, "intensity")),
                 !.all_scans = [i \in DOMAIN chrom_df |-> chrom_df[i][1]],
                 !.scan_line = Detached(@),
                 !.ax_chrom =
                     [Draw(ClearedAxes, Artist("plot", chrom_df)) EXCEPT
                        !.title = Title("MS1 Chromatogram", None)],
                 !.all_mz_min = Some(SetMin(Column(df.rows, "mz")) - 1000),
                 !.all_mz_max = Some(SetMax(Column(df.rows, "mz")) + 1000)]
        s2 == [SimpleMS1Tab_setup_spectrum_plots(s1) EXCEPT !.status_label = "processed"]
    IN  IF ~ (RequiredCols \subseteq self.df[1].cols) THEN self
        ELSE IF ms1.rows = <<>> THEN [self EXCEPT !.df = Some(ms1)]
        ELSE IF s2.all_scans # <<>>
             THEN SimpleMS1Tab_update_scan(s2, MiddleScan(s2.all_scans))
        ELSE s2

\* a variant that narrows the scan list to the scan clicked
SimpleMS1Tab_on_click_Narrowed(self, event) ==
    LET nearest_scan == ClickTarget(self, event)
    IN  IF nearest_scan = None THEN self
        ELSE [SimpleMS1Tab_update_scan(self, nearest_scan[1]) EXCEPT
                !.all_scans = <<nearest_scan[1]>>]

SimpleMS1Tab_on_click(self, event) ==
    LET nearest_scan == ClickTarget(self, event)
    IN  IF nearest_scan = None THEN self
        ELSE SimpleMS1Tab_update_scan(self, nearest_scan[1])

SimpleMS1Tab_keyPressEvent(self, key) ==
    LET target == KeyTarget(self, key)
    IN  IF KeyRaises(self) THEN [self EXCEPT !.exc = "ValueError"]
        ELSE IF target = None THEN self
        ELSE SimpleMS1Tab_update_scan(self, target[1])

----------------------------------------------------------------------------
(* ZoomViewerTab: chromatogram, whole spectrum, and two zoomed MS1 panels *)

ZoomViewerTab_init ==
    [df |-> None, current_scan |-> None, all_scans |-> <<>>,
     max_spectrum_intensity |-> 0, max_spectrum_mz_center |-> 0,
     scan_line |-> None,
     ax_chrom |-> Draw([ClearedAxes EXCEPT !.title = Title("MS1 Chromatogram", None)],
                       Artist("text", <<>>)),
     ax_ms1_var |-> Draw([ClearedAxes EXCEPT
                            !.title = Title("MS1 Spectrum (Variable Height)", None)],
                         Artist("text", <<>>)),
     ax_ms1_fixed |-> Draw([ClearedAxes EXCEPT
                              !.title = Title("MS1 Spectrum (Fixed Height)", None)],
                           Artist("text", <<>>)),
     ax_ms1_zoom |-> Draw([ClearedAxes EXCEPT
                             !.title = Title("MS1 Spectrum (Zoom)", None)],
                          Artist("text", <<>>)),
     all_mz_min |-> None, all_mz_max |-> None, current_center_mz |-> None,
     status_label |-> "no data", process_button |-> FALSE, exc |-> ""]

ZoomViewerTab_set_data(self, df) ==
    [self EXCEPT !.df = Some(df),
                 !.status_label = "data received",
                 !.process_button = TRUE]

\* a variant that flags the last row of the largest intensity in each scan
FlagMax_Last(t) ==
    LET IsMax(i) ==
            LET same == {j \in DOMAIN t.rows :
                            t.rows[j].scan_number = t.rows[i].scan_number}
                top == SetMax({t.rows[j].intensity : j \in same})
            IN  i = SetMax({j \in same : t.rows[j].intensity = top})
    IN  [cols |-> t.cols \cup {"Max"},
         rows |-> [i \in DOMAIN t.rows |->
                      [t.rows[i] EXCEPT !.Max = IF IsMax(i) THEN 1 ELSE 0]]]

\* df['Max'] = 0; df.loc[df.groupby('scan_number')['intensity'].idxmax(), 'Max'] = 1:
\* in each scan the first row of the largest intensity is flagged
FlagMax(t) ==
    LET IsMax(i) ==
            LET same == {j \in DOMAIN t.rows :
                            t.rows[j].scan_number = t.rows[i].scan_number}
                top == SetMax({t.rows[j].intensity : j \in same})
            IN  i = SetMin({j \in same : t.rows[j].intensity = top})
    IN  [cols |-> t.cols \cup {"Max"},
         rows |-> [i \in DOMAIN t.rows |->
                      [t.rows[i] EXCEPT !.Max = IF IsMax(i) THEN 1 ELSE 0]]]

RowsOfMax(rows) == SelectSeq(rows, LAMBDA r : r.Max = 1)

ZoomViewerTab_setup_spectrum_plots(self) ==
    [self EXCEPT
       !.ax_ms1_var =
           [ClearedAxes EXCEPT
              !.title = Title("MS1 Spectrum (Variable Height)", None),
              !.xlim = Some(<<self.all_mz_min[1], self.all_mz_max[1]>>)],
       !.ax_ms1_fixed =
           [ClearedAxes EXCEPT
              !.title = Title("MS1 Spectrum (Fixed Height)", None),
              !.xlim = Some(<<self.max_spectrum_mz_center - 50,
                              self.max_spectrum_mz_center + 250>>),
              !.ylim = Some(<<0, 10000>>)],
       !.ax_ms1_zoom =
           [ClearedAxes EXCEPT
              !.title = Title("MS1 Spectrum (Zoom)", None),
              !.xlim = Some(<<self.max_spectrum_mz_center - 10,
                              self.max_spectrum_mz_center + 50>>),
              !.ylim = Some(<<0, 10000>>)]]

ZoomViewerTab_safe_remove_artist(ax, artist) ==
    IF artist # None /\ artist[1].live THEN RemoveArtist(ax, artist[1].artist)
    ELSE ax

ZoomViewerTab_update_scan(self, scan_number) ==
    LET df == self.df[1]
        scan_data == RowsOfScan(df, scan_number)
        line == Artist("axvline", << <<scan_number, 0>> >>)
        s1 == [self EXCEPT
                 !.current_scan = Some(scan_number),
                 !.ax_chrom = Draw(ZoomViewerTab_safe_remove_artist(@, self.scan_line), line),
                 !.scan_line = Handle(line)]
        current_max_intensity == SetMax(Column(scan_data, "intensity"))
        max_data == RowsOfMax(scan_data)
        max_idx == SetMin({i \in DOMAIN scan_data :
                              scan_data[i].intensity = current_max_intensity})
        current_center_mz ==
            IF max_data = <<>> THEN scan_data[max_idx].mz ELSE max_data[1].mz
        current_max_spectrum_intensity ==
            IF max_data # <<>> THEN SetMax(Column(max_data, "intensity"))
            ELSE current_max_intensity
        intensity_percent_fixed == PercentPeaks(scan_data, current_max_spectrum_intensity)
    IN  IF scan_data = <<>>
        THEN [self EXCEPT !.current_scan = Some(scan_number)]
        ELSE IF "Max" \notin df.cols
        THEN \* scan_data['Max'] raises KeyError once the selection line is drawn
             [s1 EXCEPT !.exc = "KeyError"]
        ELSE [s1 EXCEPT
                !.current_center_mz = Some(current_center_mz),
                !.ax_ms1_var =
                    [Draw(Draw(ClearedAxes,
                               Artist("vlines",
                                      PercentPeaks(scan_data, current_max_intensity))),
                          Artist("axvspan", << <<current_center_mz - 100,
                                                 current_center_mz + 300>> >>)) EXCEPT
                       !.title = Title("whole spectrum - Scan", Some(scan_number)),
                       !.xlim = Some(<<self.all_mz_min[1], self.all_mz_max[1]>>),
                       !.ylim = Some(<<0, 10000>>)],
                !.ax_ms1_fixed =
                    [Draw(Draw(ClearedAxes,
                               Artist("axvspan", << <<current_center_mz - 2,
                                                      current_center_mz + 2>> >>)),
                          Artist("vlines", intensity_percent_fixed)) EXCEPT
                       !.title = Title("isotope pattern - Scan", Some(scan_number)),
                       !.xlim = Some(<<current_center_mz - 50, current_center_mz + 250>>),
                       !.ylim = Some(<<0, 1500>>)],
                !.ax_ms1_zoom =
                    [Draw(ClearedAxes, Artist("plot", intensity_percent_fixed)) EXCEPT
                       !.title = Title("resolution - Scan", Some(scan_number)),
                       !.xlim = Some(<<current_center_mz - 2, current_center_mz + 2>>),
                       !.ylim = Some(<<0, 10000>>)],
                !.status_label = "scan shown"]

\* process_ms1_data, from the column check on (df is set)
ZoomViewerTab_process_ms1_data(self) ==
    LET ms1 == FilterMS1(self.df[1])
        df == FlagMax(Renumbered(ms1))
        max_spectra == RowsOfMax(df.rows)
        chrom_df == Chromatogram(df)
        s1 == [self EXCEPT
                 !.df = Some(df),
                 !.max_spectrum_intensity = SetMax(Column(max_spectra, "intensity")),
                 !.max_spectrum_mz_center = max_spectra[1].mz,
                 !.all_scans = [i \in DOMAIN chrom_df |-> chrom_df[i][1]],
                 !.scan_line = Detached(@),
                 !.ax_chrom =
                     [Draw(ClearedAxes, Artist("plot", chrom_df)) EXCEPT
                        !.title = Title("MS1 Chromatogram", None)],
                 !.all_mz_min = Some(SetMin(Column(df.rows, "mz")) - 1000),
                 !.all_mz_max = Some(SetMax(Column(df.rows, "mz")) + 1000)]
        s2 == [ZoomViewerTab_setup_spectrum_plots(s1) EXCEPT !.status_label = "processed"]
    IN  IF ~ (RequiredCols \subseteq self.df[1].cols) THEN self
        ELSE IF ms1.rows = <<>> THEN [self EXCEPT !.df = Some(ms1)]
        ELSE IF s2.all_scans # <<>>
             THEN ZoomViewerTab_update_scan(s2, MiddleScan(s2.all_scans))
        ELSE s2

ZoomViewerTab_on_click(self, event) ==
    LET nearest_scan == ClickTarget(self, event)
    IN  IF nearest_scan = None THEN self
        ELSE ZoomViewerTab_update_scan(self, nearest_scan[1])

ZoomViewerTab_keyPressEvent(self, key) ==
    LET target == KeyTarget(self, key)
    IN  IF KeyRaises(self) THEN [self EXCEPT !.exc = "ValueError"]
        ELSE IF target = None THEN self
        ELSE ZoomViewerTab_update_scan(self, target[1])

----------------------------------------------------------------------------
(* Actions of the two MS1-only tabs *)

SimpleSetData(k) ==
    /\ loads < MaxLoads
    /\ loads' = loads + 1
    /\ simple_ms1_tab' = SimpleMS1Tab_set_data(NoExc(simple_ms1_tab), Tables[k])
    /\ ev' = Event("simple_ms1_tab", "set_data", "", <<k>>, None)
    /\ UNCHANGED <<ms1_ms2_tab, zoom_viewer_tab, appVars>>

\* self.df = self.df[...] makes self.df a new object once the columns are
\* found; the column assignments that follow write into that object
SimpleProcess ==
    /\ ~ Modal
    /\ simple_ms1_tab.process_button
    /\ LET self == SimpleMS1Tab_process_ms1_data(NoExc(simple_ms1_tab))
           a == IF RequiredCols \subseteq simple_ms1_tab.df[1].cols
                THEN CopyOf(alias, "simple_ms1_tab", "simple_ms1_tab")
                ELSE alias
       IN  /\ simple_ms1_tab' = self
           /\ alias' = a
           /\ ms1_ms2_tab' =
                  [ms1_ms2_tab EXCEPT
                     !.df = Seen(a, "simple_ms1_tab", "ms1_ms2_tab", @, self.df)]
           /\ zoom_viewer_tab' =
                  [zoom_viewer_tab EXCEPT
                     !.df = Seen(a, "simple_ms1_tab", "zoom_viewer_tab", @, self.df)]
           /\ main_window' =
                  [main_window EXCEPT
                     !.shared_data = Seen(a, "simple_ms1_tab", "shared_data", @, self.df)]
           /\ data_loader_tab' =
                  [Shown(data_loader_tab,
                         MS1Tab_process_ms1_data_box("simple_ms1_tab", simple_ms1_tab)) EXCEPT
                     !.current_data = Seen(a, "simple_ms1_tab", "current_data", @, self.df)]
    /\ ev' = Event("simple_ms1_tab", "process_ms1_data",
                   Again("simple_ms1_tab", "process_ms1_data"), <<>>, None)
    /\ UNCHANGED <<loads, Worker>>

\* a variant in which the zoom viewer shows the scan the simple viewer selects
SimpleClick_Shared(event) ==
    /\ ~ Modal
    /\ simple_ms1_tab' = SimpleMS1Tab_on_click(NoExc(simple_ms1_tab), event)
    /\ zoom_viewer_tab' =
           [zoom_viewer_tab EXCEPT !.current_scan = simple_ms1_tab'.current_scan]
    /\ ev' = Event("simple_ms1_tab", "on_click", event.inaxes, event.xdata,
                   ClickTarget(simple_ms1_tab, event))
    /\ UNCHANGED <<ms1_ms2_tab, loads, appVars>>

SimpleClick(event) ==
    /\ ~ Modal
    /\ simple_ms1_tab' = SimpleMS1Tab_on_click(NoExc(simple_ms1_tab), event)
    /\ ev' = Event("simple_ms1_tab", "on_click", event.inaxes, event.xdata,
                   ClickTarget(simple_ms1_tab, event))
    /\ UNCHANGED <<ms1_ms2_tab, zoom_viewer_tab, loads, appVars>>

SimpleKey(key) ==
    /\ ~ Modal
    /\ simple_ms1_tab' = SimpleMS1Tab_keyPressEvent(NoExc(simple_ms1_tab), key)
    /\ ev' = Event("simple_ms1_tab", "keyPressEvent", key, <<>>,
                   KeyTarget(simple_ms1_tab, key))
    /\ UNCHANGED <<ms1_ms2_tab, zoom_viewer_tab, loads, appVars>>

NextSimple ==
    \/ \E k \in DOMAIN Tables : SimpleSetData(k)
    \/ SimpleProcess
    \/ Dismiss
    \/ \E event \in MouseEvents : SimpleClick(event)
    \/ \E key \in Keys : SimpleKey(key)

ZoomSetData(k) ==
    /\ loads < MaxLoads
    /\ loads' = loads + 1
    /\ zoom_viewer_tab' = ZoomViewerTab_set_data(NoExc(zoom_viewer_tab), Tables[k])
    /\ ev' = Event("zoom_viewer_tab", "set_data", "", <<k>>, None)
    /\ UNCHANGED <<ms1_ms2_tab, simple_ms1_tab, appVars>>

\* self.df = self.df[...] makes self.df a new object once the columns are
\* found; the column assignments that follow write into that object
ZoomProcess ==
    /\ ~ Modal
    /\ zoom_viewer_tab.process_button
    /\ LET self == ZoomViewerTab_process_ms1_data(NoExc(zoom_viewer_tab))
           a == IF RequiredCols \subseteq zoom_viewer_tab.df[1].cols
                THEN CopyOf(alias, "zoom_viewer_tab", "zoom_viewer_tab")
                ELSE alias
       IN  /\ zoom_viewer_tab' = self
           /\ alias' = a
           /\ ms1_ms2_tab' =
                  [ms1_ms2_tab EXCEPT
                     !.df = Seen(a, "zoom_viewer_tab", "ms1_ms2_tab", @, self.df)]
           /\ simple_ms1_tab' =
                  [simple_ms1_tab EXCEPT
                     !.df = Seen(a, "zoom_viewer_tab", "simple_ms1_tab", @, self.df)]
           /\ main_window' =
                  [main_window EXCEPT
                     !.shared_data = Seen(a, "zoom_viewer_tab", "shared_data", @, self.df)]
           /\ data_loader_tab' =
                  [Shown(data_loader_tab,
                         MS1Tab_process_ms1_data_box("zoom_viewer_tab", zoom_viewer_tab)) EXCEPT
                     !.current_data = Seen(a, "zoom_viewer_tab", "current_data", @, self.df)]
    /\ ev' = Event("zoom_viewer_tab", "process_ms1_data",
                   Again("zoom_viewer_tab", "process_ms1_data"), <<>>, None)
    /\ UNCHANGED <<loads, Worker>>

ZoomClick(event) ==
    /\ ~ Modal
    /\ zoom_viewer_tab' = ZoomViewerTab_on_click(NoExc(zoom_viewer_tab), event)
    /\ ev' = Event("zoom_viewer_tab", "on_click", event.inaxes, event.xdata,
                   ClickTarget(zoom_viewer_tab, event))
    /\ UNCHANGED <<ms1_ms2_tab, simple_ms1_tab, loads, appVars>>

ZoomKey(key) ==
    /\ ~ Modal
    /\ zoom_viewer_tab' = ZoomViewerTab_keyPressEvent(NoExc(zoom_viewer_tab), key)
    /\ ev' = Event("zoom_viewer_tab", "keyPressEvent", key, <<>>,
                   KeyTarget(zoom_viewer_tab, key))
    /\ UNCHANGED <<ms1_ms2_tab, simple_ms1_tab, loads, appVars>>

NextZoom ==
    \/ \E k \in DOMAIN Tables : ZoomSetData(k)
    \/ ZoomProcess
    \/ Dismiss
    \/ \E event \in MouseEvents : ZoomClick(event)
    \/ \E key \in Keys : ZoomKey(key)

----------------------------------------------------------------------------
(* DataLoaderTab and the main window *)

\* a Parquet file on disk: whether read_parquet can read it, and its table
ParquetFile(readable, table) == [readable |-> readable, table |-> table]

\* scan 1 (MS1) and scan 2 whose ms_level is null
TableNullLevel ==
    [cols |-> AllCols,
     rows |-> << Row(1, 40000, 100, 1, NaN), Row(2, 30000, 50, NaN, NaN) >>]

\* what the conversion writes: scan_number is the 0-based spectrum index
TableConverted ==
    [cols |-> AllCols,
     rows |-> << Row(0, 40000, 100, 1, NaN), Row(1, 20000, 60, 2, 40000) >>]

Files == << ParquetFile(TRUE, Some(TableDDA)),
            ParquetFile(TRUE, Some(TableNullLevel)),
            ParquetFile(FALSE, None),
            ParquetFile(TRUE, Some(TableNoLevel)) >>

ConvertedFile == ParquetFile(TRUE, Some(TableConverted))

\* __init__ and setup_ui; frames is the stack of the main thread's handlers
\* in progress, innermost last: a load_file call waiting in processEvents at
\* the point pc names, or a handler waiting in the dialog it shows
DataLoaderTab_init ==
    [current_data |-> None,
     optimize_checkbox |-> TRUE, progress_bar |-> FALSE, convert_button |-> TRUE,
     file_path_label |-> "not selected", log_text |-> <<>>, frames |-> <<>>]

MSAnalysisApp_init == [shared_data |-> None]

\* astype('int32'), astype('int64') and astype('int8') raise on a null
OptimizeRaises(df) ==
    \E i \in DOMAIN df.rows :
        \E c \in {"scan_number", "intensity", "ms_level"} \cap df.cols :
            df.rows[i][c] = NaN

\* optimize_data_types: a copy with narrower column types; the casts keep
\* every value a table of this model holds (integers, m/z in hundredths)
DataLoaderTab_optimize_data_types(df) == df

AtPc(self, pc) == [self EXCEPT !.frames[Len(self.frames)].pc = pc]

\* load_file up to the first processEvents
DataLoaderTab_load_file_begin(self, file) ==
    [self EXCEPT !.progress_bar = TRUE,
                 !.frames = Append(@, [file |-> file, pc |-> "read"])]

\* load_file, the except branch
DataLoaderTab_load_file_except(self) ==
    [Popped(self) EXCEPT !.progress_bar = FALSE, !.file_path_label = "failed"]

\* load_file from the labels on, up to the emit of data_loaded
DataLoaderTab_load_file_done(self, df) ==
    [Popped(self) EXCEPT !.current_data = Some(df),
                         !.file_path_label = "loaded",
                         !.progress_bar = FALSE]

\* on_data_loaded: shared_data is the loader's object, and each set_data
\* takes a copy of it
FanOut(a) ==
    CopyOf(CopyOf(CopyOf(SameObject(a, "shared_data", "current_data"),
                         "zoom_viewer_tab", "shared_data"),
                  "simple_ms1_tab", "shared_data"),
           "ms1_ms2_tab", "shared_data")

\* on_data_loaded: the main window keeps df and every viewer copies it
OnDataLoaded(df, a) ==
    /\ main_window' = [main_window EXCEPT !.shared_data = Some(df)]
    /\ zoom_viewer_tab' = ZoomViewerTab_set_data(NoExc(zoom_viewer_tab), df)
    /\ simple_ms1_tab' = SimpleMS1Tab_set_data(NoExc(simple_ms1_tab), df)
    /\ ms1_ms2_tab' = MS1MS2Tab_set_data(NoExc(ms1_ms2_tab), df)
    /\ alias' = FanOut(a)

\* the user picks file k: load_file runs up to its first processEvents
LoadFileBegin(k) ==
    /\ ~ Modal
    /\ loads < MaxLoads
    /\ loads' = loads + 1
    /\ data_loader_tab' = DataLoaderTab_load_file_begin(data_loader_tab, Files[k])
    /\ ev' = Event("data_loader_tab", "load_file", "begin", <<k>>, None)
    /\ UNCHANGED <<Viewers, main_window, Worker, alias>>

\* the innermost load_file reads its file; with the checkbox set it stops at
\* the processEvents before optimize_data_types, else it runs to its end
LoadFileRead ==
    /\ data_loader_tab.frames # <<>>
    /\ Top(data_loader_tab).pc = "read"
    /\ LET file == Top(data_loader_tab).file
       IN  IF ~ file.readable
           THEN /\ data_loader_tab' = DataLoaderTab_load_file_except(data_loader_tab)
                /\ ev' = Event("data_loader_tab", "load_file", "read failed", <<>>, None)
                /\ UNCHANGED <<Viewers, main_window, alias>>
           ELSE IF data_loader_tab.optimize_checkbox
           THEN /\ data_loader_tab' =
                       [AtPc(data_loader_tab, "optimize") EXCEPT
                          !.current_data = file.table]
                /\ alias' = NewObject(alias, "current_data")
                /\ ev' = Event("data_loader_tab", "load_file", "read", <<>>, None)
                /\ UNCHANGED <<Viewers, main_window>>
           ELSE /\ data_loader_tab' =
                       DataLoaderTab_load_file_done(data_loader_tab, file.table[1])
                /\ OnDataLoaded(file.table[1], NewObject(alias, "current_data"))
                /\ ev' = Event("data_loader_tab", "load_file", "loaded", <<>>, None)
    /\ UNCHANGED <<Worker, loads>>

\* the innermost load_file optimizes the table it read and runs to its end
LoadFileOptimize ==
    /\ data_loader_tab.frames # <<>>
    /\ Top(data_loader_tab).pc = "optimize"
    /\ LET df == data_loader_tab.current_data[1]
           optimized == DataLoaderTab_optimize_data_types(df)
       IN  IF OptimizeRaises(df)
           THEN /\ data_loader_tab' = DataLoaderTab_load_file_except(data_loader_tab)
                /\ ev' = Event("data_loader_tab", "load_file", "optimize failed",
                               <<>>, None)
                /\ UNCHANGED <<Viewers, main_window, alias>>
           ELSE /\ data_loader_tab' =
                       DataLoaderTab_load_file_done(data_loader_tab, optimized)
                /\ OnDataLoaded(optimized, NewObject(alias, "current_data"))
                /\ ev' = Event("data_loader_tab", "load_file", "loaded", <<>>, None)
    /\ UNCHANGED <<Worker, loads>>

\* the user sets or clears the optimize checkbox
ToggleOptimize ==
    /\ ~ Modal
    /\ data_loader_tab' = [data_loader_tab EXCEPT !.optimize_checkbox = ~ @]
    /\ ev' = Event("data_loader_tab", "optimize_checkbox", "", <<>>, None)
    /\ UNCHANGED <<Viewers, main_window, Worker, alias, loads>>

NextLoad ==
    \/ \E k \in DOMAIN Files : LoadFileBegin(k)
    \/ LoadFileRead
    \/ LoadFileOptimize
    \/ ToggleOptimize

----------------------------------------------------------------------------
(* MzMLConversionThread and the handlers of its signals *)

\* an mzML file picked for conversion: whether mzml.read can read it, whether
\* its spectra hold any peak, and whether the .parquet beside it can be written
MzmlFile(readable, peaks, writable) ==
    [readable |-> readable, peaks |-> peaks, writable |-> writable]

MzmlFiles == << MzmlFile(TRUE, TRUE, TRUE), MzmlFile(FALSE, FALSE, TRUE),
                MzmlFile(TRUE, FALSE, TRUE), MzmlFile(TRUE, TRUE, FALSE) >>

Signal(name, args) == [name |-> name, args |-> args]
Progress(message) == Signal("progress_update", <<message>>)
Finished(success) == Signal("conversion_finished", <<success>>)

\* the thread object: the job it runs, how far run() has come, and every
\* signal run() has emitted so far, in order
MzMLConversionThread_init(job, file) ==
    [job |-> job, mzml_file |-> file, pc |-> "start", emitted |-> <<>>]

\* a variant of the except branch that reports the failure twice
MzMLConversionThread_except_Twice ==
    << Progress("error"), Finished(FALSE), Progress("rule"), Finished(FALSE) >>

\* run(), the except branch: two log lines, then the terminal signal
MzMLConversionThread_except ==
    << Progress("error"), Progress("rule"), Finished(FALSE) >>

\* run(): the signals the next stretch of run() emits, and where it stops; a
\* stretch ends before each operation that can raise
MzMLConversionThread_run(self) ==
    LET file == self.mzml_file
    IN  CASE self.pc = "start" ->
               [pc |-> "read",
                out |-> << Progress("start"), Progress("input"),
                           Progress("output"), Progress("reading") >>]
          [] self.pc = "read" ->
               IF ~ file.readable
               THEN [pc |-> "finished", out |-> MzMLConversionThread_except]
               ELSE [pc |-> "astype",
                     out |-> << Progress("total"), Progress("to DataFrame"),
                                Progress("optimizing") >>]
          [] self.pc = "astype" ->
               IF ~ file.peaks
               THEN [pc |-> "finished", out |-> MzMLConversionThread_except]
               ELSE [pc |-> "to_parquet", out |-> << Progress("saving") >>]
          [] self.pc = "to_parquet" ->
               IF ~ file.writable
               THEN [pc |-> "finished", out |-> MzMLConversionThread_except]
               ELSE [pc |-> "finished",
                     out |-> << Progress("done"), Progress("saved to"),
                                Progress("file size"), Progress("rule"),
                                Finished(TRUE) >>]

\* a variant that leaves the convert button enabled while a conversion runs
DataLoaderTab_convert_mzml_file_Enabled(self) ==
    [self EXCEPT !.progress_bar = TRUE]

\* convert_mzml_file: the controls while a conversion runs
DataLoaderTab_convert_mzml_file(self) ==
    [self EXCEPT !.convert_button = FALSE, !.progress_bar = TRUE]

\* update_log
DataLoaderTab_update_log(self, message) ==
    [self EXCEPT !.log_text = Append(@, message)]

\* on_conversion_finished up to the question whether to load the file
DataLoaderTab_on_conversion_finished(self) ==
    [self EXCEPT !.convert_button = TRUE, !.progress_bar = FALSE]

\* a variant that loads the output whatever the terminal signal says
LoadsConverted_Always(success, reply) == reply = "Yes"

\* on_conversion_finished: the converted file is loaded on success when the
\* user answers Yes
LoadsConverted(success, reply) == success /\ reply = "Yes"

JobOf(thread) == IF thread = None THEN 0 ELSE thread[1].job

\* the user picks mzML file m: the thread is made and started
ConvertMzmlUpTo(m, jobs) ==
    /\ ~ Modal
    /\ data_loader_tab.convert_button
    /\ JobOf(conversion_thread) < jobs
    /\ conversion_thread' =
           Some(MzMLConversionThread_init(JobOf(conversion_thread) + 1, MzmlFiles[m]))
    /\ data_loader_tab' = DataLoaderTab_convert_mzml_file(data_loader_tab)
    /\ ev' = Event("data_loader_tab", "convert_mzml_file", "", <<m>>, None)
    /\ UNCHANGED <<Viewers, main_window, signals, alias, loads>>

ConvertMzml(m) == ConvertMzmlUpTo(m, MaxJobs)

\* the worker thread runs the next stretch of run(); its signals are queued
\* for the main thread
Run ==
    /\ conversion_thread # None
    /\ conversion_thread[1].pc # "finished"
    /\ LET next == MzMLConversionThread_run(conversion_thread[1])
       IN  /\ conversion_thread' =
                  Some([conversion_thread[1] EXCEPT
                          !.pc = next.pc, !.emitted = @ \o next.out])
           /\ signals' = signals \o next.out
    /\ ev' = Event("conversion_thread", "run", conversion_thread[1].pc, <<>>, None)
    /\ UNCHANGED <<Viewers, main_window, data_loader_tab, alias, loads>>

\* the main thread takes a queued progress_update: update_log
DeliverProgress ==
    /\ signals # <<>>
    /\ Head(signals).name = "progress_update"
    /\ data_loader_tab' = DataLoaderTab_update_log(data_loader_tab, Head(signals).args[1])
    /\ signals' = Tail(signals)
    /\ ev' = Event("data_loader_tab", "update_log", "", <<>>, None)
    /\ UNCHANGED <<Viewers, main_window, conversion_thread, alias, loads>>

\* the main thread takes the queued conversion_finished: on_conversion_finished;
\* on success the user answers whether to load the converted file, and on Yes
\* load_file runs up to its first processEvents
DeliverFinished(reply) ==
    /\ signals # <<>>
    /\ Head(signals).name = "conversion_finished"
    /\ signals' = Tail(signals)
    /\ LET success == Head(signals).args[1]
           self == DataLoaderTab_on_conversion_finished(data_loader_tab)
       IN  IF LoadsConverted(success, reply)
           THEN /\ loads < MaxLoads
                /\ loads' = loads + 1
                /\ data_loader_tab' = DataLoaderTab_load_file_begin(self, ConvertedFile)
                /\ ev' = Event("data_loader_tab", "on_conversion_finished",
                               "load", <<success>>, None)
           ELSE /\ reply = "No"
                /\ data_loader_tab' = self
                /\ ev' = Event("data_loader_tab", "on_conversion_finished",
                               "", <<success>>, None)
                /\ UNCHANGED loads
    /\ UNCHANGED <<Viewers, main_window, conversion_thread, alias>>

NextConvert ==
    \/ \E m \in DOMAIN MzmlFiles : ConvertMzml(m)
    \/ Run
    \/ DeliverProgress
    \/ \E reply \in {"Yes", "No"} : DeliverFinished(reply)

----------------------------------------------------------------------------
(* Specifications *)

Init ==
    /\ ms1_ms2_tab = MS1MS2Tab_init
    /\ simple_ms1_tab = SimpleMS1Tab_init
    /\ zoom_viewer_tab = ZoomViewerTab_init
    /\ ev = Event("", "__init__", "", <<>>, None)
    /\ loads = 0
    /\ data_loader_tab = DataLoaderTab_init
    /\ main_window = MSAnalysisApp_init
    /\ conversion_thread = None
    /\ signals = <<>>
    /\ alias = {}

SpecDual == Init /\ [][NextDual]_vars
SpecSimple == Init /\ [][NextSimple]_vars
SpecZoom == Init /\ [][NextZoom]_vars

\* The session once a file has been loaded into a freshly started program:
\* the state LoadFileBegin, LoadFileRead, LoadFileOptimize end in
Loaded(file) ==
    LET df == DataLoaderTab_optimize_data_types(file.table[1])
    IN  /\ data_loader_tab =
               DataLoaderTab_load_file_done(
                   DataLoaderTab_load_file_begin(DataLoaderTab_init, file), df)
        /\ main_window = [MSAnalysisApp_init EXCEPT !.shared_data = Some(df)]
        /\ zoom_viewer_tab = ZoomViewerTab_set_data(ZoomViewerTab_init, df)
        /\ simple_ms1_tab = SimpleMS1Tab_set_data(SimpleMS1Tab_init, df)
        /\ ms1_ms2_tab = MS1MS2Tab_set_data(MS1MS2Tab_init, df)
        /\ alias = FanOut(NewObject({}, "current_data"))
        /\ conversion_thread = None
        /\ signals = <<>>
        /\ loads = 1
        /\ ev = Event("data_loader_tab", "load_file", "loaded", <<>>, None)

\* the pointer clicks on scan 1, near scan 2, or on a spectrum panel
AppMouseEvents ==
    {MouseEvent("ax_chrom", Some(10)), MouseEvent("ax_chrom", Some(17)),
     MouseEvent("ax_ms1", Some(20))}

AppKeys == {"Key_Left", "Key_Right"}

\* the events of the three viewers, in any order
NextApp ==
    \/ DualProcess
    \/ \E event \in AppMouseEvents : DualClick(event)
    \/ \E key \in AppKeys : DualKey(key)
    \/ SimpleProcess
    \/ \E event \in AppMouseEvents : SimpleClick(event)
    \/ \E key \in AppKeys : SimpleKey(key)
    \/ ZoomProcess
    \/ \E event \in AppMouseEvents : ZoomClick(event)
    \/ \E key \in AppKeys : ZoomKey(key)

\* the three viewers together, from the state the first load of the DDA file
\* leaves
SpecApp == Loaded(Files[1]) /\ [][NextApp]_vars

SpecLoad == Init /\ [][NextLoad \/ NextConvert]_vars

\* conversions one after another, of a file that converts and of one that
\* cannot be read, with the loads that follow them and a load by the user
NextConversions ==
    \/ \E m \in {1, 2} : ConvertMzmlUpTo(m, MaxConversions)
    \/ Run
    \/ DeliverProgress
    \/ \E reply \in {"Yes", "No"} : DeliverFinished(reply)
    \/ LoadFileBegin(1)
    \/ LoadFileRead
    \/ LoadFileOptimize

SpecConversions == Init /\ [][NextConversions]_vars

\* the files, the conversion and the events of the pump specification: the
\* DDA file and the file without ms_level, a conversion that succeeds, a
\* click on scan 1 and on a spectrum panel, the right-arrow key
PumpFiles == {1, 4}
PumpMzmlFiles == {1}
PumpMouseEvents == {MouseEvent("ax_chrom", Some(10)), MouseEvent("ax_ms1", Some(20))}
PumpKeys == {"Key_Right"}

\* loads that pump the event queue, a conversion and the signals it queues,
\* the user's input to the simple viewer and to the MS1/MS2 viewer, and the
\* dialogs
NextPump ==
    \/ \E k \in PumpFiles : LoadFileBegin(k)
    \/ LoadFileRead
    \/ LoadFileOptimize
    \/ \E m \in PumpMzmlFiles : ConvertMzml(m)
    \/ Run
    \/ DeliverProgress
    \/ \E reply \in {"Yes", "No"} : DeliverFinished(reply)
    \/ SimpleProcess
    \/ \E event \in PumpMouseEvents : SimpleClick(event)
    \/ \E key \in PumpKeys : SimpleKey(key)
    \/ DualProcess
    \/ DualClick(MouseEvent("ax_chrom", Some(10)))
    \/ Dismiss

SpecPump == Init /\ [][NextPump]_vars

----------------------------------------------------------------------------
(* Files drawn from families of tables *)

\* the peak of row i lies at m/z 150.00, 250.00, 350.00, ...
GenMz(i) == 10000 * i + 5000

\* a table given by the scan number, the intensity and the MS level of each
\* row; an MS2 row has precursor m/z 400.00
GenTable(scans, ints, levels) ==
    [cols |-> AllCols,
     rows |-> [i \in DOMAIN scans |->
                  Row(scans[i], GenMz(i), ints[i], levels[i],
                      IF levels[i] = 2 THEN 40000 ELSE NaN)]]

ScanValues == {5, 9, 20}
IntensityValues == {0, 100, 300}

\* MS1 tables over every order of the scan numbers 5, 9, 20 in up to MaxRows
\* rows, and the table of scans 5, 5, 9, 9, 9, 20
ScanFamily ==
    {GenTable(s, [i \in DOMAIN s |-> 100 * i], [i \in DOMAIN s |-> 1]) :
        s \in UNION {[1..n -> ScanValues] : n \in 1..MaxRows}
               \cup {<<5, 5, 9, 9, 9, 20>>}}

\* MS1 tables of two peaks in scan 1 and one in scan 2, over every choice of
\* the three intensities
IntensityFamily ==
    {GenTable(<<1, 1, 2>>, ints, <<1, 1, 1>>) : ints \in [1..3 -> IntensityValues]}

\* tables of scans 1, 2, 3 over every choice of their MS levels, and the
\* table of scans 40 (MS1), 41 (MS2), 42 (MS2)
LevelFamily ==
    {GenTable(<<1, 2, 3>>, <<100, 200, 300>>, levels) : levels \in [1..3 -> {1, 2}]}
    \cup {GenTable(<<40, 41, 42>>, <<100, 200, 300>>, <<1, 2, 2>>)}

GenTables == ScanFamily \cup IntensityFamily \cup LevelFamily

\* the session once a file of one of the families has been loaded
InitGen == \E t \in GenTables : Loaded(ParquetFile(TRUE, Some(t)))

\* the process buttons of the three viewers
NextProcess ==
    \/ DualProcess
    \/ SimpleProcess
    \/ ZoomProcess
    \/ Dismiss

SpecProcess == InitGen /\ [][NextProcess]_vars

\* one viewer processing and navigating
NextGenSimple ==
    \/ SimpleProcess
    \/ Dismiss
    \/ \E event \in AppMouseEvents : SimpleClick(event)
    \/ \E key \in AppKeys : SimpleKey(key)

NextGenZoom ==
    \/ ZoomProcess
    \/ Dismiss
    \/ \E event \in AppMouseEvents : ZoomClick(event)
    \/ \E key \in AppKeys : ZoomKey(key)

NextGenDual ==
    \/ DualProcess
    \/ \E event \in AppMouseEvents : DualClick(event)
    \/ \E key \in AppKeys : DualKey(key)

SpecGenSimple == InitGen /\ [][NextGenSimple]_vars
SpecGenZoom == InitGen /\ [][NextGenZoom]_vars
SpecGenDual == InitGen /\ [][NextGenDual]_vars

----------------------------------------------------------------------------
(* Properties *)

Dual == ms1_ms2_tab

\* the last event called update_scan of the MS1/MS2 tab with scan ev.sel[1]
DualSelected == ev.tab = "ms1_ms2_tab" /\ ev.sel # None

\* the rows of the selected scan at one MS level, in the tab's table
DualSelRows(level) ==
    IF "ms_level" \in Dual.df[1].cols
    THEN RowsOfLevel(RowsOfScan(Dual.df[1], ev.sel[1]), level)
    ELSE <<>>

\* what a panel shows: its title and its vertical-line series
Spectrum(ax) == [title |-> ax.title, vlines |-> ArtistsOf(ax, "vlines")]
Bands(ax) == ArtistsOf(ax, "axvspan")

\* the vertical-line series of rows, written out
Series(rows) ==
    [kind |-> "vlines",
     data |-> [i \in DOMAIN rows |-> <<rows[i].mz, rows[i].intensity>>]]

\* the sorted distinct scan numbers of a tab's table
ScanList(tab) == SortedSeq(Column(tab.df[1].rows, "scan_number"))

\* C1: every (panel, category) pair of the MS1/MS2 tab - selection line on
\* the chromatogram, highlight band on the MS1 panel, highlight band on the
\* MS2 panel - has at most one live artifact
C1_AtMostOneArtifact ==
    /\ Len(ArtistsOf(Dual.ax_chrom, "axvline")) <= 1
    /\ Len(Bands(Dual.ax_ms1)) <= 1
    /\ Len(Bands(Dual.ax_ms2)) <= 1

\* C2: in every tab, current_scan is none right after set_data
C2_SetDataResetsCurrentScan ==
    ev.op = "set_data" =>
        /\ ev.tab = "ms1_ms2_tab" => ms1_ms2_tab.current_scan = None
        /\ ev.tab = "simple_ms1_tab" => simple_ms1_tab.current_scan = None
        /\ ev.tab = "zoom_viewer_tab" => zoom_viewer_tab.current_scan = None

\* C3: a click or key press that selects a scan is resolved against the scan
\* list of the table the tab holds, never against the list of an earlier one
C3_SelectionUsesScanListOfTable ==
    /\ ev.tab = "simple_ms1_tab" /\ ev.sel # None
           => simple_ms1_tab.all_scans = ScanList(simple_ms1_tab)
    /\ ev.tab = "ms1_ms2_tab" /\ ev.sel # None
           => ms1_ms2_tab.all_scans = ScanList(ms1_ms2_tab)

\* C4, as claimed: after selecting scan n the MS1 panel shows the peaks of
\* the governing MS1 scan find_ms1_scan(n), whenever there is one
C4_MS1PanelShowsGoverningScan ==
    DualSelected /\ Dual.exc = "" =>
        LET governing == MS1MS2Tab_find_ms1_scan(Dual, ev.sel[1])
        IN  governing # None =>
                ArtistsOf(Dual.ax_ms1, "vlines") =
                    <<Series(RowsOfLevel(RowsOfScan(Dual.df[1], governing[1]), 1))>>

\* C4, amended: selecting scan n makes the MS1 panel show n's own MS1 peaks
\* when n has MS1 rows, and leaves the spectrum of the MS1 panel as it was
\* when n has none; the MS2 panel shows n's MS2 peaks when n has MS2 rows
C4_MS1PanelShowsSelectedOrHolds ==
    [][DualSelected' /\ Dual'.exc = "" =>
          /\ IF DualSelRows(1)' # <<>>
             THEN Spectrum(Dual.ax_ms1)' =
                      [title |-> Title("MS1 Spectrum - Scan", ev'.sel),
                       vlines |-> <<Series(DualSelRows(1)')>>]
             ELSE Spectrum(Dual.ax_ms1)' = Spectrum(Dual.ax_ms1)
          /\ DualSelRows(2)' # <<>> =>
                 ArtistsOf(Dual.ax_ms2, "vlines")' = <<Series(DualSelRows(2)')>>]_vars

\* a first click at x = 2.3 over scans 1 (MS1), 2 (MS2), 3 (MS1): scan 2 is
\* selected, the MS1 panel shows no peaks, the MS2 panel shows scan 2
C4_Witness ==
    /\ DualSelected /\ ev.op = "on_click" /\ ev.arg = <<23>> /\ ev.sel = <<2>>
    /\ Dual.df = Some(TableDDA) /\ Dual.current_scan = <<2>>
    /\ MS1MS2Tab_find_ms1_scan(Dual, 2) = Some(1)
    /\ ArtistsOf(Dual.ax_ms1, "vlines") = <<>>
    /\ ArtistsOf(Dual.ax_ms2, "vlines") = <<Series(RowsOfScan(TableDDA, 2))>>

\* C5, as claimed: after selecting a scan without MS2 rows the MS2 panel
\* shows no peaks and no highlight band
C5_NoMS2ClearsMS2Panel ==
    DualSelected /\ Dual.exc = "" /\ DualSelRows(2) = <<>> =>
        /\ ArtistsOf(Dual.ax_ms2, "vlines") = <<>>
        /\ Bands(Dual.ax_ms2) = <<>>

\* C5, amended: selecting a scan without MS2 rows leaves the MS2 panel, its
\* peaks and its highlight band, exactly as it was
C5_NoMS2LeavesMS2Panel ==
    [][DualSelected' /\ DualSelRows(2)' = <<>> =>
          /\ Dual'.ax_ms2 = Dual.ax_ms2
          /\ Dual'.ms2_shading_ms2 = Dual.ms2_shading_ms2]_vars

\* an MS1 scan is selected while the MS2 panel still shows the peaks and the
\* band of the MS2 scan selected before
C5_Witness ==
    /\ DualSelected /\ Dual.exc = "" /\ DualSelRows(2) = <<>>
    /\ DualSelRows(1) # <<>>
    /\ ArtistsOf(Dual.ax_ms2, "vlines") # <<>>
    /\ Bands(Dual.ax_ms2) # <<>>
    /\ Dual.ax_ms2.title.scan # None /\ Dual.ax_ms2.title.scan # ev.sel

\* C6: selecting a scan with no MS1 rows leaves the scan shown on the MS1
\* panel unchanged, and selecting a scan with no MS2 rows leaves the scan
\* shown on the MS2 panel unchanged
C6_PanelsHoldSpectrum ==
    [][DualSelected' =>
          /\ DualSelRows(1)' = <<>> => Spectrum(Dual.ax_ms1)' = Spectrum(Dual.ax_ms1)
          /\ DualSelRows(2)' = <<>> => Spectrum(Dual.ax_ms2)' = Spectrum(Dual.ax_ms2)]_vars

\* an MS2 scan is selected while the MS1 panel still shows an MS1 scan
C6_Witness ==
    /\ DualSelected /\ Dual.exc = "" /\ DualSelRows(1) = <<>>
    /\ DualSelRows(2) # <<>>
    /\ Dual.ax_ms1.title.scan # None /\ Dual.ax_ms1.title.scan # ev.sel
    /\ ArtistsOf(Dual.ax_ms1, "vlines") # <<>>

\* C7: while the MS1 panel shows no MS1 spectrum it carries no highlight band
C7_NoBandWithoutMS1Spectrum ==
    ArtistsOf(Dual.ax_ms1, "vlines") = <<>> => Bands(Dual.ax_ms1) = <<>>

\* C8: after selecting an MS2 scan whose first MS2 row has precursor m/z p,
\* the band on the MS2 panel spans [p - 0.05, p + 0.05] and the band drawn
\* on the MS1 panel spans [p - 1.5, p + 1.5]
C8_BandsSpanPrecursor ==
    DualSelected /\ Dual.exc = "" /\ DualSelRows(2) # <<>>
                 /\ "precursor_mz" \in Dual.df[1].cols =>
        LET p == DualSelRows(2)[1].precursor_mz
            on_ms2 == [kind |-> "axvspan", data |-> << <<p - 5, p + 5>> >>]
            on_ms1 == [kind |-> "axvspan", data |-> << <<p - 150, p + 150>> >>]
            drawn == Bands(Dual.ax_ms1)
        IN  /\ Bands(Dual.ax_ms2) = <<on_ms2>>
            /\ Dual.ms2_shading_ms2 = Some([artist |-> on_ms2, live |-> TRUE])
            /\ Dual.ms2_shading_ms1 # None =>
                   /\ Dual.ms2_shading_ms1 = Some([artist |-> on_ms1, live |-> TRUE])
                   /\ drawn # <<>> /\ drawn[Len(drawn)] = on_ms1

\* scan 2 (precursor 500.00) is selected while the MS1 panel shows scan 1:
\* the bands span [499.95, 500.05] and [498.5, 501.5]
C8_Witness ==
    /\ DualSelected /\ Dual.exc = "" /\ ev.sel = <<2>> /\ Dual.df = Some(TableDDA)
    /\ Dual.ax_ms1.title.scan = <<1>>
    /\ Bands(Dual.ax_ms2) = <<Artist("axvspan", << <<49995, 50005>> >>)>>
    /\ Bands(Dual.ax_ms1) = <<Artist("axvspan", << <<49850, 50150>> >>)>>

\* the distance from click position x10 (tenths) to scan s, in tenths
Distance(x10, s) == Abs(10 * s - x10)

\* C9: a click between two present scans selects the present scan closest to
\* the click position itself, the smaller one when two are equally close
C9_ClickSelectsClosestToX ==
    /\ ev.tab = "ms1_ms2_tab" /\ ev.op = "on_click" /\ ev.sel # None
    /\ 10 * Dual.all_scans[1] <= ev.arg[1]
    /\ ev.arg[1] <= 10 * Dual.all_scans[Len(Dual.all_scans)]
    => \A i \in DOMAIN Dual.all_scans :
           \/ Distance(ev.arg[1], ev.sel[1]) < Distance(ev.arg[1], Dual.all_scans[i])
           \/ /\ Distance(ev.arg[1], ev.sel[1]) = Distance(ev.arg[1], Dual.all_scans[i])
              /\ ev.sel[1] <= Dual.all_scans[i]

\* C10: a click on the chromatogram at an x equal to a present scan number
\* selects that scan
C10_ClickOnScanSelectsIt ==
    /\ ev.tab = "ms1_ms2_tab" /\ ev.op = "on_click" /\ ev.what = "ax_chrom"
    /\ Dual.df # None /\ ev.arg # None
    /\ ev.arg[1] % 10 = 0 /\ Contains(Dual.all_scans, ev.arg[1] \div 10)
    => /\ ev.sel = Some(ev.arg[1] \div 10)
       /\ Dual.current_scan = Some(ev.arg[1] \div 10)

\* a click at x = 5.0 over scans 1, 5, 6 has selected scan 5
C10_Witness ==
    /\ ev.tab = "ms1_ms2_tab" /\ ev.op = "on_click" /\ ev.what = "ax_chrom"
    /\ ev.arg = <<50>> /\ Dual.all_scans = <<1, 5, 6>>
    /\ Dual.current_scan = <<5>>

\* the cases in which a key press is to do nothing: no scan selected, Key_Left
\* on the first scan of all_scans, Key_Right on the last
KeyNoOpCase(tab, key) ==
    \/ tab.current_scan = None
    \/ /\ tab.all_scans # <<>>
       /\ \/ key = "Key_Left" /\ tab.current_scan = Some(tab.all_scans[1])
          \/ key = "Key_Right"
                 /\ tab.current_scan = Some(tab.all_scans[Len(tab.all_scans)])

\* C11: a key press when no scan is selected, Key_Left on the first scan and
\* Key_Right on the last scan leave the whole state of the tab (current_scan,
\* artist handles, panels) unchanged and raise no error
C11_KeyNoOpAtBoundary ==
    [][ev'.tab = "simple_ms1_tab" /\ ev'.op = "keyPressEvent"
          /\ KeyNoOpCase(simple_ms1_tab, ev'.what)
          => simple_ms1_tab' = NoExc(simple_ms1_tab)]_vars

\* Key_Left was pressed on the first of two scans, with the scan drawn
C11_Witness ==
    /\ ev.tab = "simple_ms1_tab" /\ ev.op = "keyPressEvent" /\ ev.what = "Key_Left"
    /\ simple_ms1_tab.all_scans = <<1, 2>>
    /\ simple_ms1_tab.current_scan = <<1>>
    /\ simple_ms1_tab.scan_line # None
    /\ simple_ms1_tab.exc = ""

\* C12: with a scan of all_scans selected, Key_Left selects the entry right
\* before it and Key_Right the entry right after it (the selection line moves
\* there unless update_scan raised); at the first and the last entry the
\* selection stays, it never wraps around
C12_KeysMoveToNeighbour ==
    [][ev'.tab = "ms1_ms2_tab" /\ ev'.op = "keyPressEvent"
          /\ Dual.current_scan # None
          /\ Contains(Dual.all_scans, Dual.current_scan[1])
          => LET idx == IndexOf(Dual.all_scans, Dual.current_scan[1])
                 n == Len(Dual.all_scans)
                 Moved(to) ==
                     /\ Dual'.current_scan = Some(to)
                     /\ Dual'.exc = "" =>
                            Dual'.scan_line = Handle(Artist("axvline", << <<to, 0>> >>))
             IN  /\ ev'.what = "Key_Left" /\ idx > 1 => Moved(Dual.all_scans[idx - 1])
                 /\ ev'.what = "Key_Right" /\ idx < n => Moved(Dual.all_scans[idx + 1])
                 /\ ev'.what = "Key_Left" /\ idx = 1 =>
                        Dual'.current_scan = Dual.current_scan
                 /\ ev'.what = "Key_Right" /\ idx = n =>
                        Dual'.current_scan = Dual.current_scan]_vars

\* Key_Right has moved the selection over scans 1, 5, 6 to scan 5, the entry
\* after scan 1
C12_Witness ==
    /\ ev.tab = "ms1_ms2_tab" /\ ev.op = "keyPressEvent" /\ ev.what = "Key_Right"
    /\ Dual.all_scans = <<1, 5, 6>>
    /\ ev.sel = <<5>> /\ Dual.current_scan = <<5>> /\ Dual.exc = ""

\* C13: a click that is not on the chromatogram, that carries no x, that comes
\* before any table is set or before process has built all_scans leaves the
\* whole state of the tab (current_scan, artist handles, panels) unchanged
C13_ClickElsewhereChangesNothing ==
    [][ev'.tab = "ms1_ms2_tab" /\ ev'.op = "on_click"
          /\ \/ ev'.what # "ax_chrom"
             \/ ev'.arg = None
             \/ Dual.df = None
             \/ Dual.all_scans = <<>>
          => Dual' = NoExc(Dual)]_vars

\* a click on the MS1 panel while scan 3 is selected and the band of an MS2
\* scan selected before is still drawn
C13_Witness ==
    /\ ev.tab = "ms1_ms2_tab" /\ ev.op = "on_click" /\ ev.what = "ax_ms1"
    /\ ev.arg = <<20>> /\ ev.sel = None
    /\ Dual.all_scans = <<1, 2, 3>> /\ Dual.current_scan = <<3>>
    /\ Dual.scan_line # None /\ Dual.ms2_shading_ms2 # None

\* process_ms1_data fails on the table the tab holds: a required column is
\* missing, or no row is of MS level 1
ProcessFails(tab) ==
    \/ ~ (RequiredCols \subseteq tab.df[1].cols)
    \/ RowsOfLevel(tab.df[1].rows, 1) = <<>>

\* C14: a process that fails, for a missing column or for want of MS1 rows,
\* leaves the tab's table, scan list, denominators and current_scan exactly
\* as they were before the call
C14_FailedProcessLeavesState ==
    [][ev'.tab = "simple_ms1_tab" /\ ev'.op = "process_ms1_data"
          /\ ProcessFails(simple_ms1_tab)
          => /\ simple_ms1_tab'.df = simple_ms1_tab.df
             /\ simple_ms1_tab'.all_scans = simple_ms1_tab.all_scans
             /\ simple_ms1_tab'.global_max_intensity =
                    simple_ms1_tab.global_max_intensity
             /\ simple_ms1_tab'.current_scan = simple_ms1_tab.current_scan]_vars

----------------------------------------------------------------------------
(* C15 *)

LoadFails(e) ==
    /\ e.tab = "data_loader_tab"
    /\ e.op = "load_file"
    /\ e.what \in {"read failed", "optimize failed"}

\* C15: when load_file fails, at the read or at the type optimization, the
\* loader's current_data is still the table of the last successful load (the
\* one the main window holds as shared_data), shared_data and every viewer
\* are as they were, and data_loaded is not emitted
C15_FailedLoadKeepsDataset ==
    [][LoadFails(ev')
         => /\ data_loader_tab'.current_data = main_window'.shared_data
            /\ main_window' = main_window
            /\ Viewers' = Viewers]_vars

----------------------------------------------------------------------------
(* C19 *)

\* the worker thread is scheduled until run() returns
SpecLoadFair == SpecLoad /\ WF_vars(Run)

Terminals(emitted) ==
    {i \in DOMAIN emitted : emitted[i].name = "conversion_finished"}

\* at most one terminal signal, last of all the job has emitted; exactly one
\* once run() has returned
OneTerminalLast(thread) ==
    /\ Cardinality(Terminals(thread.emitted)) <= 1
    /\ Terminals(thread.emitted) \subseteq {Len(thread.emitted)}
    /\ thread.pc = "finished" <=> Terminals(thread.emitted) # {}

\* C19: a started conversion job comes to emit conversion_finished, on the
\* success path and on each failure path; it emits it once, after every
\* progress_update of the job, and emits nothing after it
C19_OneTerminalEvent ==
    /\ [](conversion_thread # None => OneTerminalLast(conversion_thread[1]))
    /\ \A job \in 1..MaxJobs :
           (JobOf(conversion_thread) = job)
               ~> (/\ JobOf(conversion_thread) = job
                   /\ conversion_thread[1].pc = "finished")

\* a job whose input was read and that failed later has emitted its progress
\* lines and then the one terminal signal, with success false
C19_Witness ==
    /\ conversion_thread # None
    /\ conversion_thread[1].pc = "finished"
    /\ conversion_thread[1].mzml_file.readable
    /\ conversion_thread[1].emitted[Len(conversion_thread[1].emitted)] = Finished(FALSE)
    /\ Len(conversion_thread[1].emitted) > 4

----------------------------------------------------------------------------
(* C20 *)

\* the tables of the session: the loader's, the main window's, and the viewers
SessionTables == <<data_loader_tab.current_data, main_window, Viewers, alias>>

\* a step in which load_file is entered for the converted file
LoadsConvertedFile ==
    /\ Len(data_loader_tab'.frames) > Len(data_loader_tab.frames)
    /\ Top(data_loader_tab').pc # "QMessageBox"
    /\ Top(data_loader_tab').file = ConvertedFile

\* C20: a step of the worker's run(), the delivery of a log line, and
\* on_conversion_finished when it does not load, leave current_data,
\* shared_data and the viewers as they were; load_file is entered for the
\* converted file only in on_conversion_finished, on the main thread, for a
\* terminal signal with success true answered Yes, and it is the load_file any
\* load enters (one more call waiting to read)
C20_WorkerLeavesSessionTables ==
    [][/\ \/ ev'.tab = "conversion_thread"
          \/ ev'.op = "update_log"
          \/ ev'.op = "convert_mzml_file"
          \/ ev'.op = "on_conversion_finished" /\ ev'.what # "load"
          => SessionTables' = SessionTables
       /\ LoadsConvertedFile
          => /\ ev'.tab = "data_loader_tab"
             /\ ev'.op = "on_conversion_finished"
             /\ ev'.arg = <<TRUE>>
             /\ Head(signals) = Finished(TRUE)
             /\ conversion_thread[1].pc = "finished"
             /\ data_loader_tab'.frames =
                    Append(data_loader_tab.frames,
                           [file |-> ConvertedFile, pc |-> "read"])
             /\ SessionTables' = SessionTables]_vars

\* a conversion has failed and its terminal signal has been handled while the
\* session holds a loaded table
C20_Witness ==
    /\ ev.op = "on_conversion_finished"
    /\ ev.arg = <<FALSE>>
    /\ data_loader_tab.current_data = Some(TableDDA)
    /\ main_window.shared_data = Some(TableDDA)
    /\ data_loader_tab.convert_button

----------------------------------------------------------------------------
(* C16 *)

\* the last step was process on a tab that held a table and showed no scan
ProcessedFromReady(tab, name) ==
    /\ ev'.tab = name
    /\ ev'.op \in {"process_data", "process_ms1_data"}
    /\ tab.df # None
    /\ tab.current_scan = None
    /\ tab'.exc = ""

\* a step that is neither a click nor a key press
NotNavigation == ev'.op \notin {"on_click", "keyPressEvent"}

CurrentScans ==
    <<ms1_ms2_tab.current_scan, simple_ms1_tab.current_scan,
      zoom_viewer_tab.current_scan>>

\* C16 as stated: process on a viewer that holds a table and shows no scan
\* leaves its current_scan none, and only clicks and key presses change a
\* current_scan
C16_ProcessLeavesReady ==
    [][/\ ProcessedFromReady(ms1_ms2_tab, "ms1_ms2_tab")
          => ms1_ms2_tab'.current_scan = None
       /\ ProcessedFromReady(simple_ms1_tab, "simple_ms1_tab")
          => simple_ms1_tab'.current_scan = None
       /\ ProcessedFromReady(zoom_viewer_tab, "zoom_viewer_tab")
          => zoom_viewer_tab'.current_scan = None
       /\ NotNavigation => CurrentScans' = CurrentScans]_vars

\* C16 amended: process leaves the MS1/MS2 viewer's current_scan as it was
\* (none stays none); a successful process in the simple and in the zoom
\* viewer selects the middle scan of the new scan list,
\* all_scans[len(all_scans) // 2]; a step that is neither that, a click nor a
\* key press changes no current_scan
C16_ProcessSelectsMiddleScan ==
    [][/\ ev'.tab = "ms1_ms2_tab" /\ ev'.op = "process_data"
          => ms1_ms2_tab'.current_scan = ms1_ms2_tab.current_scan
       /\ /\ ev'.tab = "simple_ms1_tab" /\ ev'.op = "process_ms1_data"
          /\ ~ ProcessFails(simple_ms1_tab)
          => LET scans == simple_ms1_tab'.all_scans
             IN  /\ scans # <<>>
                 /\ simple_ms1_tab'.current_scan =
                        Some(scans[(Len(scans) \div 2) + 1])
       /\ /\ ev'.tab = "zoom_viewer_tab" /\ ev'.op = "process_ms1_data"
          /\ ~ ProcessFails(zoom_viewer_tab)
          => LET scans == zoom_viewer_tab'.all_scans
             IN  /\ scans # <<>>
                 /\ zoom_viewer_tab'.current_scan =
                        Some(scans[(Len(scans) \div 2) + 1])
       /\ NotNavigation /\ ev'.op # "process_ms1_data"
          => CurrentScans' = CurrentScans]_vars

\* the simple viewer has just been processed from Ready and shows the middle
\* scan, while the MS1/MS2 viewer, processed too, still shows none
C16_Witness ==
    /\ ev.tab = "simple_ms1_tab"
    /\ ev.op = "process_ms1_data"
    /\ simple_ms1_tab.all_scans = <<1, 2>>
    /\ simple_ms1_tab.current_scan = Some(2)
    /\ ms1_ms2_tab.all_scans # <<>>
    /\ ms1_ms2_tab.current_scan = None

----------------------------------------------------------------------------
(* C17 *)

\* the navigation state of the MS1/MS2 viewer: the scan shown, the scan list,
\* and the handles of the selection line and of the two highlight bands
DualNavigation ==
    <<ms1_ms2_tab.current_scan, ms1_ms2_tab.all_scans, ms1_ms2_tab.scan_line,
      ms1_ms2_tab.ms2_shading_ms1, ms1_ms2_tab.ms2_shading_ms2>>

\* the navigation state of the simple and of the zoom viewer
SimpleNavigation ==
    <<simple_ms1_tab.current_scan, simple_ms1_tab.all_scans,
      simple_ms1_tab.scan_line>>
ZoomNavigation ==
    <<zoom_viewer_tab.current_scan, zoom_viewer_tab.all_scans,
      zoom_viewer_tab.scan_line>>

\* C17: a click or a key press handled by one viewer leaves current_scan, the
\* scan list and the overlay handles of the other two viewers as they were,
\* wherever the events of the three viewers are interleaved
C17_NavigationNotShared ==
    [][ev'.op \in {"on_click", "keyPressEvent"}
         => /\ ev'.tab # "ms1_ms2_tab" => DualNavigation' = DualNavigation
            /\ ev'.tab # "simple_ms1_tab" => SimpleNavigation' = SimpleNavigation
            /\ ev'.tab # "zoom_viewer_tab" => ZoomNavigation' = ZoomNavigation]_vars

\* a click has just selected scan 1 in the simple viewer while the zoom viewer
\* shows scan 2 and the MS1/MS2 viewer scan 3
C17_Witness ==
    /\ ev.tab = "simple_ms1_tab"
    /\ ev.op = "on_click"
    /\ ev.sel = Some(1)
    /\ simple_ms1_tab.current_scan = Some(1)
    /\ zoom_viewer_tab.current_scan = Some(2)
    /\ ms1_ms2_tab.current_scan = Some(3)

----------------------------------------------------------------------------
(* C18 *)

\* C18: process_ms1_data of the simple or of the zoom viewer, which keeps the
\* MS1 rows of the viewer's table and renumbers their scans, leaves the main
\* window's shared_data, the loader's current_data and the MS1/MS2 viewer's
\* table holding every row of the loaded file under its original scan number,
\* and leaves the table of the other of the two viewers as it was
C18_FilterStaysInItsViewer ==
    [][ev'.op = "process_ms1_data"
         => /\ main_window'.shared_data = Some(TableDDA)
            /\ data_loader_tab'.current_data = Some(TableDDA)
            /\ ms1_ms2_tab'.df = Some(TableDDA)
            /\ ev'.tab = "simple_ms1_tab" => zoom_viewer_tab'.df = zoom_viewer_tab.df
            /\ ev'.tab = "zoom_viewer_tab" => simple_ms1_tab'.df = simple_ms1_tab.df]_vars

\* the simple viewer has filtered and renumbered its table (scan 3 is now scan
\* 2, the MS2 rows are gone) while the zoom viewer and the others still hold
\* the five rows of the file
C18_Witness ==
    /\ ev.tab = "simple_ms1_tab"
    /\ ev.op = "process_ms1_data"
    /\ simple_ms1_tab.df = Some(Renumbered(FilterMS1(TableDDA)))
    /\ Column(simple_ms1_tab.df[1].rows, "scan_number") = {1, 2}
    /\ Len(simple_ms1_tab.df[1].rows) = 3
    /\ zoom_viewer_tab.df = Some(TableDDA)
    /\ main_window.shared_data = Some(TableDDA)
    /\ data_loader_tab.current_data = Some(TableDDA)
    /\ ms1_ms2_tab.df = Some(TableDDA)

----------------------------------------------------------------------------
(* C22 *)

ScanNumbers(t) == [i \in DOMAIN t.rows |-> t.rows[i].scan_number]

\* new numbers the scans of old densely and in order: as many rows, the new
\* numbers are exactly 1..N for the N distinct old numbers, two rows compare
\* by their new numbers as by their old ones, and so each scan keeps its rows
DenselyRenumbered(old, new) ==
    LET N == Cardinality({old[i] : i \in DOMAIN old})
    IN  /\ DOMAIN new = DOMAIN old
        /\ {new[i] : i \in DOMAIN new} = 1..N
        /\ \A i, j \in DOMAIN old :
               /\ old[i] < old[j] <=> new[i] < new[j]
               /\ old[i] = old[j] <=> new[i] = new[j]
        /\ \A k \in 1..N :
               \E o \in {old[i] : i \in DOMAIN old} :
                   /\ Cardinality({o2 \in {old[i] : i \in DOMAIN old} : o2 <= o}) = k
                   /\ Cardinality({i \in DOMAIN new : new[i] = k})
                          = Cardinality({i \in DOMAIN old : old[i] = o})

\* C22: a successful process_ms1_data of the simple and of the zoom viewer
\* renumbers the scans of the MS1 rows densely and in order: the sorted
\* distinct old scan numbers become 1..N in ascending order, the new scan
\* numbers are exactly {1..N}, and each scan keeps its number of rows
C22_DenseRenumbering ==
    [][/\ /\ ev'.tab = "simple_ms1_tab" /\ ev'.op = "process_ms1_data"
          /\ ~ ProcessFails(simple_ms1_tab)
          => DenselyRenumbered(ScanNumbers(FilterMS1(simple_ms1_tab.df[1])),
                               ScanNumbers(simple_ms1_tab'.df[1]))
       /\ /\ ev'.tab = "zoom_viewer_tab" /\ ev'.op = "process_ms1_data"
          /\ ~ ProcessFails(zoom_viewer_tab)
          => DenselyRenumbered(ScanNumbers(FilterMS1(zoom_viewer_tab.df[1])),
                               ScanNumbers(zoom_viewer_tab'.df[1]))]_vars

\* the file of scans 5, 5, 9, 9, 9, 20 has been processed in the simple
\* viewer: its rows are now of scans 1, 1, 2, 2, 2, 3
C22_Witness ==
    /\ ev.tab = "simple_ms1_tab"
    /\ ev.op = "process_ms1_data"
    /\ ScanNumbers(main_window.shared_data[1]) = <<5, 5, 9, 9, 9, 20>>
    /\ ScanNumbers(simple_ms1_tab.df[1]) = <<1, 1, 2, 2, 2, 3>>

----------------------------------------------------------------------------
(* C23 *)

\* the scan list and the chromatogram of a tab are those of its table: every
\* scan number of the table once, ascending, each plotted at the sum of the
\* intensities of its rows
ScanIndexBuilt(tab) ==
    LET t == tab.df[1]
        scans == tab.all_scans
    IN  /\ \A i \in 1..(Len(scans) - 1) : scans[i] < scans[i + 1]
        /\ {scans[i] : i \in DOMAIN scans} = Column(t.rows, "scan_number")
        /\ \E c \in DOMAIN tab.ax_chrom.children :
               /\ tab.ax_chrom.children[c].kind = "plot"
               /\ tab.ax_chrom.children[c].data =
                      [i \in DOMAIN scans |->
                          <<scans[i],
                            SumSeq(Intensities(RowsOfScan(t, scans[i])))>>]

\* C23: after a successful process the scan list of the viewer holds each
\* distinct scan number of its table (the MS1 rows, renumbered, in the simple
\* and the zoom viewer) once and in strictly ascending order, and the
\* chromatogram plots each scan at the sum of the intensities of its peaks
C23_ScanListAndChromatogram ==
    [][/\ ev'.tab = "ms1_ms2_tab" /\ ev'.op = "process_data"
          => ScanIndexBuilt(ms1_ms2_tab')
       /\ /\ ev'.tab = "simple_ms1_tab" /\ ev'.op = "process_ms1_data"
          /\ ~ ProcessFails(simple_ms1_tab)
          => ScanIndexBuilt(simple_ms1_tab')
       /\ /\ ev'.tab = "zoom_viewer_tab" /\ ev'.op = "process_ms1_data"
          /\ ~ ProcessFails(zoom_viewer_tab)
          => ScanIndexBuilt(zoom_viewer_tab')]_vars

\* the MS1/MS2 viewer has processed the file whose rows are of scans 20, 5,
\* 5, 9 in this order: the scan list is 5, 9, 20 and scan 5 sums two peaks
C23_Witness ==
    /\ ev.tab = "ms1_ms2_tab"
    /\ ev.op = "process_data"
    /\ ScanNumbers(ms1_ms2_tab.df[1]) = <<20, 5, 5, 9>>
    /\ ms1_ms2_tab.all_scans = <<5, 9, 20>>
    /\ ms1_ms2_tab.ax_chrom.children[1].data = <<<<5, 500>>, <<9, 400>>, <<20, 100>>>>

----------------------------------------------------------------------------
(* C24 *)

\* the scans a caller may ask about: below, among and above those of a table
TargetScans == 0..43

\* the scans of the table at or before from_scan that have a peak of level 1
MS1ScansUpTo(t, from_scan) ==
    {s \in Column(t.rows, "scan_number") :
        /\ s <= from_scan
        /\ \E i \in DOMAIN t.rows :
               t.rows[i].scan_number = s /\ t.rows[i].ms_level = 1}

\* C24: once the MS1/MS2 viewer has a scan list, find_ms1_scan(from_scan)
\* returns the largest scan number of the viewer's table at or before
\* from_scan (from_scan included) that has MS1 peaks, and None when the table
\* has no such scan
C24_PreviousMS1Scan ==
    ms1_ms2_tab.all_scans # <<>> =>
        \A from_scan \in TargetScans :
            LET found == MS1MS2Tab_find_ms1_scan(ms1_ms2_tab, from_scan)
                upto == MS1ScansUpTo(ms1_ms2_tab.df[1], from_scan)
            IN  IF upto = {} THEN found = None
                ELSE /\ found # None
                     /\ found[1] \in upto
                     /\ \A s \in upto : s <= found[1]

----------------------------------------------------------------------------
(* C25 *)

\* the peaks drawn in a panel: the (m/z, percent) pairs of its vlines
PeaksDrawn(ax) ==
    UNION {{a.data[j] : j \in DOMAIN a.data} :
              a \in {ax.children[i] : i \in {i \in DOMAIN ax.children :
                                                ax.children[i].kind = "vlines"}}}

\* C25: in the variable-height panel of the simple MS1 viewer the largest
\* peak of the shown scan is drawn at exactly 100 percent and every other
\* peak between 0 and 100, for every scan of non-negative intensities, a scan
\* whose peaks are all 0 included
C25_VariableHeightScaled ==
    LET peaks == PeaksDrawn(simple_ms1_tab.ax_ms1_var)
    IN  peaks # {} =>
            /\ \E p \in peaks : p[2] = 10000
            /\ \A p \in peaks : p[2] \in 0..10000

----------------------------------------------------------------------------
(* C26 *)

\* C26: in the fixed-height panel of the simple MS1 viewer every scan is
\* scaled by 100 over the largest intensity of the viewer's table: no peak is
\* drawn above 100 percent, and a peak of the shown scan that has the
\* table's largest intensity is drawn at 100 percent
C26_FixedHeightScaled ==
    LET self == simple_ms1_tab
        peaks == PeaksDrawn(self.ax_ms1_fixed)
        rows == self.df[1].rows
        shown == RowsOfScan(self.df[1], self.current_scan[1])
    IN  peaks # {} =>
            /\ \A p \in peaks : p[2] \in 0..10000
            /\ \A i \in DOMAIN shown :
                   shown[i].intensity = SetMax(Column(rows, "intensity")) =>
                       <<shown[i].mz, 10000>> \in peaks

----------------------------------------------------------------------------
(* C27 *)

\* the table of the viewer a dialog belongs to
TableOf(self) ==
    CASE self = "ms1_ms2_tab" -> ms1_ms2_tab.df[1]
      [] self = "simple_ms1_tab" -> simple_ms1_tab.df[1]
      [] self = "zoom_viewer_tab" -> zoom_viewer_tab.df[1]

\* C27: when a process handler has just failed for want of required columns,
\* the dialog it shows names exactly the required columns that the table
\* lacks, and none that the table has
C27_ErrorNamesMissingColumns ==
    (/\ ev.op \in {"process_data", "process_ms1_data"}
     /\ Frames # <<>>
     /\ Top(data_loader_tab).pc = "QMessageBox"
     /\ Top(data_loader_tab).text = "required columns not found") =>
        Top(data_loader_tab).names = RequiredCols \ TableOf(ev.tab).cols

----------------------------------------------------------------------------
(* C28 *)

\* C28: the MS1/MS2 viewer draws only peaks of m/z below 200: no peak of the
\* vertical lines of its MS1 panel or of its MS2 panel has m/z 200 or more
C28_OnlyPeaksBelow200 ==
    \A p \in PeaksDrawn(ms1_ms2_tab.ax_ms1) \cup PeaksDrawn(ms1_ms2_tab.ax_ms2) :
        p[1] < 20000

----------------------------------------------------------------------------
(* C29 *)

\* what process() computes: the table, its scan numbering, the scan list,
\* the chromatogram and the denominators of the panels
DualProcessed ==
    [df |-> ms1_ms2_tab.df, all_scans |-> ms1_ms2_tab.all_scans,
     chromatogram |-> ArtistsOf(ms1_ms2_tab.ax_chrom, "plot"),
     denominators |-> <<ms1_ms2_tab.chrom_max_intensity>>]

SimpleProcessed ==
    [df |-> simple_ms1_tab.df, all_scans |-> simple_ms1_tab.all_scans,
     chromatogram |-> ArtistsOf(simple_ms1_tab.ax_chrom, "plot"),
     denominators |-> <<simple_ms1_tab.global_max_intensity>>]

ZoomProcessed ==
    [df |-> zoom_viewer_tab.df, all_scans |-> zoom_viewer_tab.all_scans,
     chromatogram |-> ArtistsOf(zoom_viewer_tab.ax_chrom, "plot"),
     denominators |-> <<zoom_viewer_tab.max_spectrum_intensity,
                        zoom_viewer_tab.max_spectrum_mz_center>>]

\* C29: process() run on a viewer straight after process() on the same
\* viewer leaves the table rows, the scan numbering, the scan list, the
\* chromatogram and the denominators as the first run left them
C29_ProcessIdempotent ==
    [][ev'.what = "again" =>
          /\ ev'.tab = "ms1_ms2_tab" => DualProcessed' = DualProcessed
          /\ ev'.tab = "simple_ms1_tab" => SimpleProcessed' = SimpleProcessed
          /\ ev'.tab = "zoom_viewer_tab" => ZoomProcessed' = ZoomProcessed]_vars

\* the simple viewer has processed a table of scans 5, 9, 20 twice in a row
C29_Witness ==
    /\ ev.tab = "simple_ms1_tab" /\ ev.what = "again"
    /\ simple_ms1_tab.all_scans = <<1, 2, 3>>
    /\ ScanNumbers(main_window.shared_data[1]) = <<5, 9, 20>>

----------------------------------------------------------------------------
(* C30 *)

\* [min - 10, max + 10] over the m/z of the rows
MzRangeOf(rows) ==
    Some(<<SetMin(Column(rows, "mz")) - 1000, SetMax(Column(rows, "mz")) + 1000>>)

\* the bounds a viewer keeps
StoredRange(self) ==
    IF self.all_mz_min = None THEN None
    ELSE Some(<<self.all_mz_min[1], self.all_mz_max[1]>>)

\* the MS1 rows of the table, or all its rows when none is of MS level 1
MS1OrAll(t) ==
    IF RowsOfLevel(t.rows, 1) # <<>> THEN RowsOfLevel(t.rows, 1) ELSE t.rows

\* the step computes the bounds of a viewer when it is its process handler
\* getting through, from the table the handler finds, and else keeps them
RangeFromProcess(tab, old, new) ==
    IF ev'.tab = tab /\ ev'.op \in {"process_data", "process_ms1_data"}
    THEN (/\ RequiredCols \subseteq old.df[1].cols
          /\ tab = "ms1_ms2_tab" \/ RowsOfLevel(old.df[1].rows, 1) # <<>>) =>
             StoredRange(new) = MzRangeOf(MS1OrAll(old.df[1]))
    ELSE StoredRange(new) = StoredRange(old)

RangesFromProcess ==
    /\ RangeFromProcess("ms1_ms2_tab", ms1_ms2_tab, ms1_ms2_tab')
    /\ RangeFromProcess("simple_ms1_tab", simple_ms1_tab, simple_ms1_tab')
    /\ RangeFromProcess("zoom_viewer_tab", zoom_viewer_tab, zoom_viewer_tab')

\* a panel that shows peaks spans the bounds its viewer keeps
FullWidth(ax, self) == PeaksDrawn(ax) # {} => ax.xlim = StoredRange(self)

MS1PanelsFullWidth ==
    /\ FullWidth(ms1_ms2_tab.ax_ms1, ms1_ms2_tab)
    /\ FullWidth(simple_ms1_tab.ax_ms1_var, simple_ms1_tab)
    /\ FullWidth(simple_ms1_tab.ax_ms1_fixed, simple_ms1_tab)
    /\ FullWidth(zoom_viewer_tab.ax_ms1_var, zoom_viewer_tab)

\* the MS2 panel spans the m/z of the peaks it shows
MS2PanelOwnWidth ==
    LET peaks == PeaksDrawn(ms1_ms2_tab.ax_ms2)
    IN  peaks # {} =>
            ms1_ms2_tab.ax_ms2.xlim =
                Some(<<SetMin({p[1] : p \in peaks}) - 1000,
                       SetMax({p[1] : p \in peaks}) + 1000>>)

\* C30 as claimed: in every view the full-width spectrum panels, the MS2
\* panel among them, span [min - 10, max + 10] of the m/z of the MS1 rows (of
\* all rows when there are none) of the table, computed by process and by
\* nothing else, whatever scan is selected
C30_MzRangeGlobal ==
    [][/\ RangesFromProcess
       /\ MS1PanelsFullWidth'
       /\ FullWidth(ms1_ms2_tab.ax_ms2, ms1_ms2_tab)']_vars

\* C30 amended: the same for the MS1 panels; the MS2 panel spans
\* [min - 10, max + 10] of the m/z of the selected scan's own MS2 peaks
C30_MzRangeGlobalButMS2 ==
    [][/\ RangesFromProcess
       /\ MS1PanelsFullWidth'
       /\ MS2PanelOwnWidth']_vars

\* the MS1/MS2 viewer shows MS1 peaks over 390..510 and the MS2 peaks of
\* scan 2 over 140..260
C30_Witness ==
    /\ ms1_ms2_tab.current_scan = Some(2)
    /\ PeaksDrawn(ms1_ms2_tab.ax_ms1) # {}
    /\ ms1_ms2_tab.ax_ms1.xlim = Some(<<39000, 51000>>)
    /\ ms1_ms2_tab.ax_ms2.xlim = Some(<<14000, 26000>>)
    /\ PeaksDrawn(simple_ms1_tab.ax_ms1_var) # {}

----------------------------------------------------------------------------
(* C21 *)

\* the handlers that draw the panels of a viewer
UpdateOps == {"process_data", "process_ms1_data", "on_click", "keyPressEvent"}

\* a handler of the viewer that draws its panels has started and not returned
UpdateInProgress(tab) ==
    \E i \in DOMAIN Frames :
        Frames[i].pc = "QMessageBox" /\ Frames[i].self = tab

\* C21: whatever the order of clicks, keys, process requests, loads and
\* conversion signals, load_file waiting in processEvents included, a
\* handler that draws the panels of a viewer starts only when no handler
\* drawing the same viewer's panels is in progress, and a click or key
\* handler has returned by the end of its step
C21_NoOverlappingUpdates ==
    [][ev'.op \in UpdateOps =>
          /\ ~ UpdateInProgress(ev'.tab)
          /\ ev'.op \in {"on_click", "keyPressEvent"} => Frames' = Frames]_vars

\* a click on the simple viewer is handled, to its end, inside the
\* processEvents of a load_file that has read its file
C21_Witness ==
    /\ ev.tab = "simple_ms1_tab" /\ ev.op = "on_click" /\ ev.sel = Some(1)
    /\ simple_ms1_tab.current_scan = Some(1)
    /\ Frames # <<>>
    /\ Top(data_loader_tab).pc = "optimize"

----------------------------------------------------------------------------
(* C31 *)

\* the rows of the scan flagged as its reference peak
ReferencePeaks(t, scan) == RowsOfMax(RowsOfScan(t, scan))

\* the scan has one reference peak: its first row of the largest intensity
OneReferencePeak(t, scan) ==
    LET scan_data == RowsOfScan(t, scan)
        ref == ReferencePeaks(t, scan)
    IN  /\ Len(ref) = 1
        /\ \A i \in DOMAIN scan_data : scan_data[i].intensity <= ref[1].intensity
        /\ \E i \in DOMAIN scan_data :
               /\ scan_data[i] = ref[1]
               /\ \A j \in 1..(i - 1) : scan_data[j].intensity < ref[1].intensity

\* C31: in the zoom viewer a processed table has exactly one reference peak
\* in each scan, the first row of the scan's largest intensity; and for the
\* selected scan the isotope and resolution panels divide by that peak's
\* intensity and are centred on that peak's m/z
C31_ReferencePeak ==
    LET self == zoom_viewer_tab
        t == self.df[1]
    IN  (self.df # None /\ "Max" \in t.cols) =>
            /\ \A scan \in Column(t.rows, "scan_number") : OneReferencePeak(t, scan)
            /\ (self.current_scan # None
                /\ RowsOfScan(t, self.current_scan[1]) # <<>>) =>
                   LET scan_data == RowsOfScan(t, self.current_scan[1])
                       ref == ReferencePeaks(t, self.current_scan[1])[1]
                       percent == PercentPeaks(scan_data, ref.intensity)
                   IN  /\ ArtistsOf(self.ax_ms1_fixed, "vlines")
                              = << Artist("vlines", percent) >>
                       /\ ArtistsOf(self.ax_ms1_zoom, "plot")
                              = << Artist("plot", percent) >>
                       /\ self.current_center_mz = Some(ref.mz)
                       /\ self.ax_ms1_fixed.xlim = Some(<<ref.mz - 50, ref.mz + 250>>)
                       /\ self.ax_ms1_zoom.xlim = Some(<<ref.mz - 2, ref.mz + 2>>)

\* scan 1 is selected and has two peaks of intensity 300: the first is the
\* reference peak and the second is drawn at 100 percent as well
C31_Witness ==
    LET self == zoom_viewer_tab
    IN  /\ self.df # None /\ "Max" \in self.df[1].cols
        /\ self.current_scan = Some(1)
        /\ Intensities(RowsOfScan(self.df[1], 1)) = <<300, 300>>
        /\ RowsOfScan(self.df[1], 1)[1].Max = 1
        /\ RowsOfScan(self.df[1], 1)[2].Max = 0
        /\ PeaksDrawn(self.ax_ms1_fixed) = {<<15000, 10000>>, <<25000, 10000>>}

----------------------------------------------------------------------------
(* C32 *)

\* the selected scan of the viewer, if any, is in the viewer's scan list
SelectionListed(self) ==
    self.current_scan # None => Contains(self.all_scans, self.current_scan[1])

\* C32: in every reachable state of every viewer the selected scan, when
\* there is one, is a member of the viewer's scan list, so that a key press
\* finds it there
C32_SelectionInScanList ==
    /\ SelectionListed(ms1_ms2_tab)
    /\ SelectionListed(simple_ms1_tab)
    /\ SelectionListed(zoom_viewer_tab)

----------------------------------------------------------------------------
(* C33 *)

\* the chromatogram of the viewer shows one selection line, the one the
\* viewer holds, and it stands on the selected scan
SelectionLineOn(self) ==
    /\ self.scan_line # None
    /\ self.scan_line[1].live
    /\ ArtistsOf(self.ax_chrom, "axvline") = << self.scan_line[1].artist >>
    /\ self.scan_line[1].artist.data = << <<self.current_scan[1], 0>> >>

\* C33: in every reachable state of every viewer that has a selected scan,
\* the chromatogram carries a live selection line at the selected scan
C33_SelectionLineAtCurrentScan ==
    /\ ms1_ms2_tab.current_scan # None => SelectionLineOn(ms1_ms2_tab)
    /\ simple_ms1_tab.current_scan # None => SelectionLineOn(simple_ms1_tab)
    /\ zoom_viewer_tab.current_scan # None => SelectionLineOn(zoom_viewer_tab)

----------------------------------------------------------------------------
(* C34 *)

\* what the three viewers hold of their tables: rows, scan list,
\* chromatogram, denominators and m/z bounds
ProcessedData ==
    << DualProcessed, StoredRange(ms1_ms2_tab),
       SimpleProcessed, StoredRange(simple_ms1_tab),
       ZoomProcessed, StoredRange(zoom_viewer_tab) >>

\* C34: a click or a key press leaves the table rows, the scan list, the
\* chromatogram values, the m/z bounds and the denominators computed by
\* process() of every viewer as they were
C34_NavigationKeepsData ==
    [][ev'.op \in {"on_click", "keyPressEvent"} =>
          ProcessedData' = ProcessedData]_vars

\* a click has moved the simple viewer from the scan process selected to
\* scan 1
C34_Witness ==
    /\ ev.tab = "simple_ms1_tab" /\ ev.op = "on_click" /\ ev.sel = Some(1)
    /\ simple_ms1_tab.current_scan = Some(1)
    /\ simple_ms1_tab.all_scans = <<1, 2>>
    /\ simple_ms1_tab.ax_ms1_var.title.scan = Some(1)

----------------------------------------------------------------------------
(* C35 *)

\* the viewer after its key handler has handled the keys in turn
DualAfterKeys(self, first, second) ==
    MS1MS2Tab_keyPressEvent(NoExc(MS1MS2Tab_keyPressEvent(NoExc(self), first)), second)
SimpleAfterKeys(self, first, second) ==
    SimpleMS1Tab_keyPressEvent(NoExc(SimpleMS1Tab_keyPressEvent(NoExc(self), first)),
                               second)
ZoomAfterKeys(self, first, second) ==
    ZoomViewerTab_keyPressEvent(NoExc(ZoomViewerTab_keyPressEvent(NoExc(self), first)),
                                second)

\* the selected scan is in the list, and not at its end / not at its start
NotLast(self) ==
    /\ self.current_scan # None /\ Contains(self.all_scans, self.current_scan[1])
    /\ IndexOf(self.all_scans, self.current_scan[1]) < Len(self.all_scans)
NotFirst(self) ==
    /\ self.current_scan # None /\ Contains(self.all_scans, self.current_scan[1])
    /\ IndexOf(self.all_scans, self.current_scan[1]) > 1

\* C35: in every state of a viewer whose selected scan is not the last of
\* the list, the right key followed by the left key ends on the scan it
\* began on; and when it is not the first, the left key followed by the
\* right key does
C35_KeysReversible ==
    /\ NotLast(ms1_ms2_tab) =>
           DualAfterKeys(ms1_ms2_tab, "Key_Right", "Key_Left").current_scan
               = ms1_ms2_tab.current_scan
    /\ NotFirst(ms1_ms2_tab) =>
           DualAfterKeys(ms1_ms2_tab, "Key_Left", "Key_Right").current_scan
               = ms1_ms2_tab.current_scan
    /\ NotLast(simple_ms1_tab) =>
           SimpleAfterKeys(simple_ms1_tab, "Key_Right", "Key_Left").current_scan
               = simple_ms1_tab.current_scan
    /\ NotFirst(simple_ms1_tab) =>
           SimpleAfterKeys(simple_ms1_tab, "Key_Left", "Key_Right").current_scan
               = simple_ms1_tab.current_scan
    /\ NotLast(zoom_viewer_tab) =>
           ZoomAfterKeys(zoom_viewer_tab, "Key_Right", "Key_Left").current_scan
               = zoom_viewer_tab.current_scan
    /\ NotFirst(zoom_viewer_tab) =>
           ZoomAfterKeys(zoom_viewer_tab, "Key_Left", "Key_Right").current_scan
               = zoom_viewer_tab.current_scan

\* the MS1/MS2 viewer is back on scan 1 of three by the left key, after the
\* right key had taken it to scan 2
C35_Witness ==
    /\ ev.tab = "ms1_ms2_tab" /\ ev.op = "keyPressEvent"
    /\ ev.what = "Key_Left" /\ ev.sel = Some(1)
    /\ ms1_ms2_tab.current_scan = Some(1)
    /\ ms1_ms2_tab.all_scans = <<1, 2, 3>>
    /\ ms1_ms2_tab.ax_ms2.title.scan = Some(2)

----------------------------------------------------------------------------
(* C36 *)

RECURSIVE DualAfterPresses(_, _, _)
\* the viewer after its key handler has handled the key k times
DualAfterPresses(self, key, k) ==
    IF k = 0 THEN self
    ELSE DualAfterPresses(MS1MS2Tab_keyPressEvent(NoExc(self), key), key, k - 1)

RECURSIVE ZoomAfterPresses(_, _, _)
ZoomAfterPresses(self, key, k) ==
    IF k = 0 THEN self
    ELSE ZoomAfterPresses(ZoomViewerTab_keyPressEvent(NoExc(self), key), key, k - 1)

Listed(self) ==
    self.current_scan # None /\ Contains(self.all_scans, self.current_scan[1])

FirstScan(self) == Some(self.all_scans[1])
LastScan(self) == Some(self.all_scans[Len(self.all_scans)])

\* N - 1 presses of the right key take the viewer to the last of its N scans
\* and one more leaves it there; the left key likewise, to the first
DualWithinPresses ==
    LET self == ms1_ms2_tab
        n == Len(self.all_scans)
    IN  Listed(self) =>
            /\ DualAfterPresses(self, "Key_Right", n - 1).current_scan = LastScan(self)
            /\ DualAfterPresses(self, "Key_Right", n).current_scan = LastScan(self)
            /\ DualAfterPresses(self, "Key_Left", n - 1).current_scan = FirstScan(self)
            /\ DualAfterPresses(self, "Key_Left", n).current_scan = FirstScan(self)

ZoomWithinPresses ==
    LET self == zoom_viewer_tab
        n == Len(self.all_scans)
    IN  Listed(self) =>
            /\ ZoomAfterPresses(self, "Key_Right", n - 1).current_scan = LastScan(self)
            /\ ZoomAfterPresses(self, "Key_Right", n).current_scan = LastScan(self)
            /\ ZoomAfterPresses(self, "Key_Left", n - 1).current_scan = FirstScan(self)
            /\ ZoomAfterPresses(self, "Key_Left", n).current_scan = FirstScan(self)

\* from some point on the viewer gets the one key only, and gets it as long
\* as the key still moves it
OnlyZoomKey(key) == <>[][ZoomKey(key)]_vars /\ WF_vars(ZoomKey(key))
OnlyDualKey(key) == <>[][DualKey(key)]_vars /\ WF_vars(DualKey(key))

\* C36: when only right keys are delivered to a viewer with a selected scan,
\* the selection comes to the last scan of the list, within N - 1 presses,
\* and stays there; with only left keys it comes to the first scan and stays
C36_KeysReachTheEnds ==
    /\ [](DualWithinPresses /\ ZoomWithinPresses)
    /\ OnlyZoomKey("Key_Right") =>
           <>[](Listed(zoom_viewer_tab) =>
                    zoom_viewer_tab.current_scan = LastScan(zoom_viewer_tab))
    /\ OnlyZoomKey("Key_Left") =>
           <>[](Listed(zoom_viewer_tab) =>
                    zoom_viewer_tab.current_scan = FirstScan(zoom_viewer_tab))
    /\ OnlyDualKey("Key_Right") =>
           <>[](Listed(ms1_ms2_tab) =>
                    ms1_ms2_tab.current_scan = LastScan(ms1_ms2_tab))
    /\ OnlyDualKey("Key_Left") =>
           <>[](Listed(ms1_ms2_tab) =>
                    ms1_ms2_tab.current_scan = FirstScan(ms1_ms2_tab))

\* the right key has taken the MS1/MS2 viewer to scan 3, the last of three,
\* and another press of it has changed nothing
C36_Witness ==
    /\ ev.tab = "ms1_ms2_tab" /\ ev.op = "keyPressEvent"
    /\ ev.what = "Key_Right" /\ ev.sel = None
    /\ ms1_ms2_tab.current_scan = Some(3)
    /\ ms1_ms2_tab.all_scans = <<1, 2, 3>>

----------------------------------------------------------------------------
(* C37 *)

\* the number of distinct scans among the MS1 rows of the table
MS1ScanCount(t) == Cardinality(Column(RowsOfLevel(t.rows, 1), "scan_number"))

\* the viewer shows scan m of its list 1..n: selected, drawn in the
\* full-spectrum panel, and under the selection line
ShowsScanOf(self, m, n) ==
    /\ self.all_scans = [i \in 1..n |-> i]
    /\ self.current_scan = Some(m)
    /\ self.ax_ms1_var.title.scan = Some(m)
    /\ {p[1] : p \in PeaksDrawn(self.ax_ms1_var)}
           = Column(RowsOfScan(self.df[1], m), "mz")
    /\ SelectionLineOn(self)

\* C37: a process of the simple or of the zoom viewer that gets through, over
\* a table with N >= 1 MS1 scans, ends with scan floor(N/2) + 1 of the
\* renumbered list 1..N selected, drawn, and under the selection line
C37_ProcessShowsMiddleScan ==
    [][/\ (/\ ev'.tab = "simple_ms1_tab" /\ ev'.op = "process_ms1_data"
           /\ ~ ProcessFails(simple_ms1_tab)) =>
              LET n == MS1ScanCount(simple_ms1_tab.df[1])
              IN  n >= 1 /\ ShowsScanOf(simple_ms1_tab', (n \div 2) + 1, n)
       /\ (/\ ev'.tab = "zoom_viewer_tab" /\ ev'.op = "process_ms1_data"
           /\ ~ ProcessFails(zoom_viewer_tab)) =>
              LET n == MS1ScanCount(zoom_viewer_tab.df[1])
              IN  n >= 1 /\ ShowsScanOf(zoom_viewer_tab', (n \div 2) + 1, n)]_vars

\* the zoom viewer has processed a table of scans 5, 9, 20 and shows scan 2
\* of 1, 2, 3
C37_Witness ==
    /\ ev.tab = "zoom_viewer_tab" /\ ev.op = "process_ms1_data"
    /\ ScanNumbers(main_window.shared_data[1]) = <<5, 9, 20>>
    /\ ShowsScanOf(zoom_viewer_tab, 2, 3)

\* ---------------------------------------------------------------------------
\* One conversion at a time (convert_mzml_file, on_conversion_finished)

\* a conversion job is in flight: its thread still runs, or its
\* conversion_finished signal has not been taken by the main thread yet
InFlight ==
    /\ conversion_thread # None
    /\ \/ conversion_thread[1].pc # "finished"
       \/ \E i \in DOMAIN signals : signals[i].name = "conversion_finished"

\* the step is a call of convert_mzml_file
ConversionStarts == ev'.op = "convert_mzml_file" /\ conversion_thread' # conversion_thread

\* the step is the main thread running on_conversion_finished
TerminalEventHandled == ev'.op = "on_conversion_finished" /\ signals' # signals

\* C38: at most one conversion job runs at a time.  Starting a conversion
\* disables the convert button and shows the progress bar; while a job is in
\* flight (running, or finished with its conversion_finished signal not yet
\* handled) the button stays disabled and no conversion starts; the handler of
\* the terminal event, after success and after failure, enables the button and
\* hides the progress bar (which load_file shows again when the user has the
\* converted file loaded), and with no job in flight and no load in progress the
\* button is enabled and the bar hidden.
C38_OneConversionAtATime ==
    /\ [](InFlight => ~ data_loader_tab.convert_button)
    /\ [](~ InFlight /\ Frames = <<>> =>
              data_loader_tab.convert_button /\ ~ data_loader_tab.progress_bar)
    /\ [][/\ ConversionStarts =>
                /\ ~ InFlight
                /\ ~ data_loader_tab'.convert_button
                /\ data_loader_tab'.progress_bar
          /\ TerminalEventHandled =>
                /\ ~ InFlight'
                /\ data_loader_tab'.convert_button
                /\ Frames' = Frames => ~ data_loader_tab'.progress_bar
         ]_vars

\* a second conversion has been started after the terminal event of the first
\* was handled, and it runs with the button disabled and the bar shown
C38_Witness ==
    /\ conversion_thread # None
    /\ conversion_thread[1].job = 2
    /\ conversion_thread[1].pc # "finished"
    /\ Frames = <<>>
    /\ ~ data_loader_tab.convert_button
    /\ data_loader_tab.progress_bar

\* ---------------------------------------------------------------------------
\* Loads requested while a load is in progress (load_file, on_data_loaded)

\* load_file of the file runs to its end: read_parquet and optimize_data_types
\* do not raise
Completes(file) ==
    /\ file.readable
    /\ ~ OptimizeRaises(file.table[1])

\* load_file of Files[k] has been entered from the processEvents of a load_file
\* still in progress, and both files can be loaded
SecondRequested(k) ==
    /\ Len(Frames) = 2
    /\ \A i \in 1..2 : Frames[i].pc # "QMessageBox"
    /\ Frames[2].file = Files[k]
    /\ Completes(Frames[1].file)
    /\ Completes(Files[k])

\* the loader, the session and every viewer hold the table of the file
ActiveDataset(file) ==
    /\ data_loader_tab.current_data = file.table
    /\ main_window.shared_data = file.table
    /\ zoom_viewer_tab.df = file.table
    /\ simple_ms1_tab.df = file.table
    /\ ms1_ms2_tab.df = file.table

\* C39: loads take effect in request order.  When load_file of a second file
\* has been requested while load_file of a first one is still in progress,
\* then once no load is in progress any more and no further load has been
\* requested, the loader, the session and all viewers hold the table of the
\* file requested last.
C39_LastRequestWins ==
    \A k \in DOMAIN Files : \A n \in 1..MaxLoads :
        [](SecondRequested(k) /\ loads = n =>
              [](Frames = <<>> /\ loads = n => ActiveDataset(Files[k])))

====
